---- MODULE Spec2Model ----
(***************************************************************************)
(* Provider fallback gateway (services/multi_api_service.py) and vector    *)
(* store (services/vector_store.py) of the RAG query-retrieval system.     *)
(*                                                                         *)
(* The gateway runs on one asyncio event loop: a coroutine gives up the    *)
(* loop only at an await.  `running` names the dispatch that holds the     *)
(* loop; while it is set no other coroutine takes a step.                  *)
(***************************************************************************)
EXTENDS Integers, Sequences, FiniteSets, TLC

\* ------------------------------------------------------------------ bounds
MaxGeminiKeys == 1      \* gemini keys that may be set (the code reads three)
MaxProviders == 3       \* length of the registries explored
MaxDispatches == 2      \* dispatches started on one gateway instance
MaxClock == 300         \* last instant (seconds) the clock reaches
TickStep == 150         \* granularity (seconds) at which time is observed
MaxLoads == 2           \* add_documents calls started on one vector store
MaxSearches == 1        \* query embeddings computed by search
MaxQuestions == 2       \* questions of one request
MaxTasks == 2           \* questions of all the requests in flight at once
MaxSentences == 3       \* sentences of the document a search runs against
MaxTopK == 2            \* results a search is asked for
MaxTexts == 2           \* texts of one encode call
MaxParagraphs == 3      \* lines of the document text a question comes with
MaxAnswerPieces == 4    \* pieces of the text a model returns

\* ------------------------------------------------------- program constants
CooldownMinutes == 5
ExtractMaxLength == 2000   \* _extract_relevant_sections(max_length=2000)
MinParagraphLength == 20   \* `if len(para.strip()) < 20: continue`
AnswerCap == 2000          \* `if len(answer) > 2000:` of the local service
LongRun == 1000            \* characters of the long run of letters below

\* ---------------------------------------------------------------- strings
\* A message is a sequence of one-character strings.
UpperCase == <<"A","B","C","D","E","F","G","H","I","J","K","L","M",
               "N","O","P","Q","R","S","T","U","V","W","X","Y","Z">>
LowerCase == <<"a","b","c","d","e","f","g","h","i","j","k","l","m",
               "n","o","p","q","r","s","t","u","v","w","x","y","z">>

\* str.lower(), one character
LowerChar(c) ==
  IF \E k \in 1..Len(UpperCase) : UpperCase[k] = c
  THEN LowerCase[CHOOSE k \in 1..Len(UpperCase) : UpperCase[k] = c]
  ELSE c

\* mutant of StrLower: the message is not lower-cased
StrLowerMissing(s) == s

\* error_msg = str(e).lower()
StrLower(s) == [k \in 1..Len(s) |-> LowerChar(s[k])]

\* `term in error_msg`: scan the start positions left to right
RECURSIVE FindFrom(_, _, _)
FindFrom(term, s, k) ==
  IF k + Len(term) - 1 > Len(s) THEN FALSE
  ELSE IF SubSeq(s, k, k + Len(term) - 1) = term THEN TRUE
  ELSE FindFrom(term, s, k + 1)

StrIn(term, s) == FindFrom(term, s, 1)

\* the list of rate-limit indicators
RateLimitTerms ==
  << <<"r","a","t","e"," ","l","i","m","i","t">>,
     <<"q","u","o","t","a">>,
     <<"4","2","9">>,
     <<"t","o","o"," ","m","a","n","y"," ","r","e","q","u","e","s","t","s">> >>

\* any(term in error_msg for term in [...]) on the lower-cased message
IsRateLimitError(msg) ==
  \E k \in 1..Len(RateLimitTerms) : StrIn(RateLimitTerms[k], StrLower(msg))

\* Messages a provider call may raise (str(e)).
ErrorMessages ==
  << <<"R","a","t","e"," ","L","i","m","i","t"," ","h","i","t">>,
     <<"Q","U","O","T","A"," ","e","x","c","e","e","d","e","d">>,
     <<"H","T","T","P"," ","4","2","9">>,
     <<"T","o","o"," ","M","a","n","y"," ","R","e","q","u","e","s","t","s">>,
     <<"R","e","a","d"," ","t","i","m","e","d"," ","o","u","t">>,
     <<"n","o","t"," ","i","m","p","l","e","m","e","n","t","e","d"," ","y","e","t">> >>

\* what the huggingface adapters raise
NotImplementedMsg == Len(ErrorMessages)

\* the handler's verdict on each message
Classified == [m \in 1..Len(ErrorMessages) |-> IsRateLimitError(ErrorMessages[m])]

Success == 0
Outcomes == {Success} \cup (1..Len(ErrorMessages))

\* ------------------------------------------------------- provider registry
GeminiNames == <<"gemini_1", "gemini_2", "gemini_3">>

\* Credentials in the order setup_providers examines them.
CredentialOrder ==
  [k \in 1..Len(GeminiNames) |-> [name |-> GeminiNames[k], type |-> "gemini"]]
  \o << [name |-> "openai", type |-> "openai"],
        [name |-> "perplexity", type |-> "perplexity"],
        [name |-> "huggingface", type |-> "huggingface"] >>

\* The credentials a deployment explored here may set
Credentials ==
  {CredentialOrder[k].name : k \in 1..Len(CredentialOrder)}
  \ {GeminiNames[k] : k \in (MaxGeminiKeys + 1)..Len(GeminiNames)}

\* setup_providers: append a descriptor for every credential that is set
RECURSIVE SetupFrom(_, _)
SetupFrom(keys, k) ==
  IF k > Len(CredentialOrder) THEN << >>
  ELSE IF CredentialOrder[k].name \in keys
       THEN <<CredentialOrder[k]>> \o SetupFrom(keys, k + 1)
       ELSE SetupFrom(keys, k + 1)

setup_providers(keys) == SetupFrom(keys, 1)

Capabilities == {"embed", "text"}

VARIABLES
  api_providers,           \* the registry, fixed after construction
  local_llm_available,     \* set by initialize()
  initialized,             \* initialize() has run
  current_provider_index,  \* rotation cursor, 0-based
  rate_limit_cooldown,     \* provider name -> expiry (0: no entry)
  clock,                   \* time.time(), seconds
  started,                 \* dispatches begun so far
  running,                 \* the dispatch that holds the event loop (0: none)
  frame,                   \* the coroutine frame of each dispatch
  handled,                 \* the except-handler execution of the latest step
  raisedAt                 \* provider name -> time of its latest rate-limit raise (-1: none)

gatewayVars == <<api_providers, local_llm_available, initialized,
                 current_provider_index, rate_limit_cooldown, clock, started,
                 running, frame, handled, raisedAt>>

VARIABLES
  chunks,          \* self.chunks
  index,           \* the vectors of the FAISS index, in insertion order
  document_hash,   \* self._document_hash
  index_file,      \* <index_path>.faiss
  chunks_file,     \* <index_path>.chunks
  loads,           \* add_documents calls begun so far
  load,            \* the coroutine frame of each add_documents call
  lastDone,        \* the add_documents call that returned or raised last
  encodeCalls,     \* content hash -> encode batches executed for it
  queryEmbeds      \* query embeddings computed by search

storeVars == <<chunks, index, document_hash, index_file, chunks_file, loads,
               load, lastDone, encodeCalls, queryEmbeds>>

VARIABLES
  req,             \* the run_query_internal coroutine of each request
  question         \* the process_query task of each question of each request

requestVars == <<req, question>>

VARIABLES
  embedding_gateway,  \* EmbeddingService.multi_api_service: cursor and cooldown table
  query_gateway,      \* QueryProcessor.multi_api_service: cursor and cooldown table
  pathLog             \* the latest dispatch, the one before it on the same
                      \* gateway, the latest of each path, and when each
                      \* path cooled each provider

pathVars == <<embedding_gateway, query_gateway, pathLog>>

VARIABLES
  scores,          \* search: the score of each stored vector against the query
  lengths,         \* search: len(chunk.content) of each stored chunk
  top_k,           \* search: the number of results asked for
  results,         \* search: where the call stands and the results returned
  context          \* get_relevant_context: the length of the string returned

searchVars == <<scores, lengths, top_k, results, context>>

VARIABLES
  startup          \* VectorStore.initialize: where it stands and what it met

startupVars == <<startup>>

VARIABLES
  embedded         \* one encode call: the path taken, the vectors, the rows added

embedVars == <<embedded>>

VARIABLES
  availability,    \* one is_provider_available call: its arguments and effect
  sections,        \* one _extract_relevant_sections call: arguments and result
  answer           \* one _generate_answer call: the model's text and the return

pureVars == <<availability, sections, answer>>

\* the state of the parts that are studied on their own
extraVars == <<startupVars, embedVars, pureVars>>

\* what the gateway leaves alone, and what the vector store leaves alone
besideGateway == <<storeVars, requestVars, pathVars, searchVars, extraVars>>
besideStore == <<gatewayVars, requestVars, pathVars, searchVars, extraVars>>

NumProviders == Len(api_providers)

Registered == {api_providers[k].name : k \in 1..NumProviders}

Local == 0   \* log entry of the privileged local provider

IdleFrame ==
  [pc |-> "idle", cap |-> "text", attempt |-> 0, provider |-> 0,
   invoked |-> << >>, result |-> "none", from |-> -1, localOut |-> "none",
   startCur |-> 0, startLocal |-> FALSE, startCooled |-> {}, overlap |-> FALSE,
   endCur |-> 0]

Active(f) == f.pc \in {"local", "loop", "call"}

\* The frames with those of the dispatches that have returned or raised
\* released: a frame is kept for one state after its dispatch ends.
Settled ==
  [u \in 1..MaxDispatches |-> IF frame[u].pc = "done" THEN IdleFrame ELSE frame[u]]

NoError == [name |-> "", msg |-> 0, cdBefore |-> << >>, curBefore |-> 0]

\* ------------------------------------------------------------ cooldown table
\* mutant of is_provider_available: the cooldown entry is ignored
is_provider_available_ignored(cd, name, now) == TRUE

\* is_provider_available, the value returned
is_provider_available(cd, name, now) ==
  IF cd[name] # 0 THEN (IF now < cd[name] THEN FALSE ELSE TRUE) ELSE TRUE

\* is_provider_available, its effect on the table: an expired entry is deleted
EvictExpired(cd, name, now) ==
  IF cd[name] # 0 /\ ~(now < cd[name]) THEN [cd EXCEPT ![name] = 0] ELSE cd

\* set_provider_cooldown
set_provider_cooldown(cd, name, cooldown_minutes, now) ==
  [cd EXCEPT ![name] = now + cooldown_minutes * 60]

\* ------------------------------------------------------- the except handler
\* except Exception as e: classify, cool down on a rate limit
HandleError(cd, name, msg, now) ==
  IF Classified[msg]
  THEN set_provider_cooldown(cd, name, CooldownMinutes, now)
  ELSE cd

\* mutant of NextIndex: the cursor stays where it is
NextIndexStuck(cur) == cur

\* mutant of NextIndex: the cursor is advanced without wrapping
NextIndexUnwrapped(cur) == cur + 1

\* self.current_provider_index = (self.current_provider_index + 1) % len(...)
NextIndex(cur) == (cur + 1) % NumProviders

\* Does the adapter reach an await before it returns or raises?
\*   gemini text, perplexity text: blocking SDK / requests call, no await
\*   gemini embeddings: asyncio.sleep between batches of 10 texts
\*   openai: await ...acreate;  huggingface: raises at once
Suspends(type, c, manyTexts) ==
  CASE type = "openai" -> TRUE
    [] type = "gemini" -> c = "embed" /\ manyTexts
    [] OTHER -> FALSE

\* Outcomes an adapter can produce
AdapterOutcomes(type) ==
  IF type = "huggingface" THEN {NotImplementedMsg} ELSE Outcomes

\* The message names a rate limit, whatever its case (the reading of the
\* raise that the cooldown discipline is judged against).
MentionsRateLimit(msg) ==
  \E n \in 1..Len(RateLimitTerms) :
    \E k \in 1..Len(msg) :
      /\ k + Len(RateLimitTerms[n]) - 1 <= Len(msg)
      /\ \A j \in 1..Len(RateLimitTerms[n]) :
           LowerChar(msg[k + j - 1]) = RateLimitTerms[n][j]

RateLimitMessages ==
  {m \in 1..Len(ErrorMessages) : MentionsRateLimit(ErrorMessages[m])}

GatewayInit ==
  /\ api_providers \in {setup_providers(keys) :
        keys \in {K \in SUBSET Credentials : Cardinality(K) <= MaxProviders}}
  /\ local_llm_available = FALSE
  /\ initialized = FALSE
  /\ current_provider_index = 0
  /\ rate_limit_cooldown = [n \in Registered |-> 0]
  /\ clock = 0
  /\ started = 0
  /\ running = 0
  /\ frame = [t \in 1..MaxDispatches |-> IdleFrame]
  /\ handled = NoError
  /\ raisedAt = [n \in Registered |-> -1]

\* MultiAPIService.initialize: probe the local service
Initialize(avail) ==
  /\ UNCHANGED besideGateway
  /\ ~initialized
  /\ started = 0
  /\ initialized' = TRUE
  /\ local_llm_available' = avail
  /\ UNCHANGED <<api_providers, current_provider_index, rate_limit_cooldown,
                 clock, started, running, frame, handled, raisedAt>>

\* mutant of EntryPoint: the local provider is never tried
EntryPointRemoteOnly(avail) == "loop"

\* if self.local_llm_available: try the local provider first
EntryPoint(avail) == IF avail THEN "local" ELSE "loop"

\* generate_embeddings / generate_text is called.  With the local provider
\* marked available the coroutine awaits the local call; otherwise it enters
\* the loop over the registry.
BeginDispatch(c) ==
  /\ UNCHANGED besideGateway
  /\ running = 0
  /\ started < MaxDispatches
  /\ started' = started + 1
  /\ LET t == CHOOSE u \in 1..MaxDispatches :
                /\ Settled[u].pc = "idle"
                /\ \A v \in 1..MaxDispatches : Settled[v].pc = "idle" => u <= v
         f0 == [IdleFrame EXCEPT
                  !.cap = c,
                  !.startCur = current_provider_index,
                  !.startLocal = local_llm_available,
                  !.startCooled = {n \in Registered :
                                     ~is_provider_available(rate_limit_cooldown, n, clock)},
                  !.overlap = \E u \in 1..MaxDispatches : Active(frame[u])]
     IN /\ frame' = [u \in 1..MaxDispatches |->
                       IF u = t
                       THEN IF EntryPoint(local_llm_available) = "local"
                            THEN [f0 EXCEPT !.pc = "local", !.invoked = <<Local>>]
                            ELSE [f0 EXCEPT !.pc = "loop"]
                       ELSE IF Active(frame[u])
                            THEN [frame[u] EXCEPT !.overlap = TRUE]
                            ELSE Settled[u]]
        /\ running' = IF EntryPoint(local_llm_available) = "local" THEN 0 ELSE t
  /\ handled' = NoError
  /\ UNCHANGED <<api_providers, local_llm_available, initialized,
                 current_provider_index, rate_limit_cooldown, clock, raisedAt>>

\* mutant of NextAttempt: a failed or skipped provider does not use up an
\* iteration
NextAttemptStuck(a) == a

\* for attempt in range(len(self.api_providers)): the next iteration
NextAttempt(a) == a + 1

\* mutant of Finish: the error of the provider called last reaches the caller
FinishRaising(f, res, i, cur) ==
  [f EXCEPT !.pc = "done",
            !.result = IF res = "terminal" /\ \E k \in 1..Len(f.invoked) : f.invoked[k] # Local
                       THEN "provider_error" ELSE res,
            !.from = i, !.endCur = cur]

\* return <result> / raise Exception("All API providers failed ...")
Finish(f, res, i, cur) ==
  [f EXCEPT !.pc = "done", !.result = res, !.from = i, !.endCur = cur]

\* The except block, run for the provider the frame called: the verdict on
\* the message, the cooldown, and the shared cursor advanced from the value it
\* has now.  The frame goes on to the next iteration.
Except(t, f, i, msg, cd) ==
  LET name == api_providers[i].name IN
  /\ rate_limit_cooldown' = HandleError(cd, name, msg, clock)
  /\ current_provider_index' = NextIndex(current_provider_index)
  /\ frame' = [Settled EXCEPT ![t] = [f EXCEPT !.pc = "loop",
                                             !.attempt = NextAttempt(@)]]
  /\ running' = t
  /\ handled' = [name |-> name, msg |-> msg, cdBefore |-> cd,
                 curBefore |-> current_provider_index]
  /\ raisedAt' = IF msg \in RateLimitMessages
                 THEN [raisedAt EXCEPT ![name] = clock] ELSE raisedAt

\* mutant of LocalExcept: a local provider that raised is given up
LocalExceptDisables(avail) == FALSE

\* except Exception as e: logger.warning(...); logger.info(...) -- the flag
\* self.local_llm_available is left as it is
LocalExcept(avail) == avail

\* the awaited local call returns or raises
LocalReturns(t, ok) ==
  /\ UNCHANGED besideGateway
  /\ UNCHANGED started
  /\ running = 0
  /\ frame[t].pc = "local"
  /\ IF ok
     THEN /\ frame' = [Settled EXCEPT ![t] =
                 Finish([frame[t] EXCEPT !.localOut = "ok"], "ok", Local,
                        current_provider_index)]
          /\ running' = 0
          /\ UNCHANGED local_llm_available
     ELSE /\ frame' = [Settled EXCEPT ![t] =
                 [frame[t] EXCEPT !.localOut = "raised", !.pc = "loop"]]
          /\ running' = t
          /\ local_llm_available' = LocalExcept(local_llm_available)
  /\ handled' = NoError
  /\ UNCHANGED <<api_providers, initialized,
                 current_provider_index, rate_limit_cooldown, clock, raisedAt>>

\* One iteration of `for attempt in range(len(self.api_providers))`, up to the
\* await of a suspending adapter; an adapter that does not suspend returns or
\* raises within the step.
LoopStep(t, manyTexts, out) ==
  /\ UNCHANGED besideGateway
  /\ UNCHANGED started
  /\ running = t
  /\ frame[t].pc = "loop"
  /\ UNCHANGED <<api_providers, local_llm_available, initialized, clock>>
  /\ IF frame[t].attempt >= NumProviders
     THEN \* the loop is exhausted: raise the terminal error
          /\ frame' = [Settled EXCEPT ![t] =
                 Finish(frame[t], "terminal", -1, current_provider_index)]
          /\ running' = 0
          /\ handled' = NoError
          /\ UNCHANGED <<current_provider_index, rate_limit_cooldown, raisedAt>>
     ELSE
       LET i == current_provider_index + 1
           p == api_providers[i]
           skipped == [Settled EXCEPT ![t].attempt = NextAttempt(@)]
           called == [frame[t] EXCEPT !.invoked = Append(@, i), !.provider = i]
           evicted == EvictExpired(rate_limit_cooldown, p.name, clock)
       IN IF ~is_provider_available(rate_limit_cooldown, p.name, clock)
          THEN \* in cooldown: next
               /\ current_provider_index' = NextIndex(current_provider_index)
               /\ frame' = skipped
               /\ handled' = NoError
               /\ UNCHANGED <<rate_limit_cooldown, running, raisedAt>>
          ELSE IF frame[t].cap = "embed" /\ p.type = "perplexity"
          THEN \* no embeddings from this provider: next
               /\ current_provider_index' = NextIndex(current_provider_index)
               /\ rate_limit_cooldown' = evicted
               /\ frame' = skipped
               /\ handled' = NoError
               /\ UNCHANGED <<running, raisedAt>>
          ELSE IF Suspends(p.type, frame[t].cap, manyTexts)
          THEN \* return await <adapter>: the loop is given up
               /\ rate_limit_cooldown' = evicted
               /\ frame' = [Settled EXCEPT ![t] = [called EXCEPT !.pc = "call"]]
               /\ running' = 0
               /\ handled' = NoError
               /\ UNCHANGED <<current_provider_index, raisedAt>>
          ELSE /\ out \in AdapterOutcomes(p.type)
               /\ IF out = Success
                  THEN /\ rate_limit_cooldown' = evicted
                       /\ frame' = [Settled EXCEPT ![t] =
                              Finish(called, "ok", i, current_provider_index)]
                       /\ running' = 0
                       /\ handled' = NoError
                       /\ UNCHANGED <<current_provider_index, raisedAt>>
                  ELSE Except(t, called, i, out, evicted)

\* the awaited remote adapter returns or raises
CallReturns(t, out) ==
  /\ UNCHANGED besideGateway
  /\ UNCHANGED started
  /\ running = 0
  /\ frame[t].pc = "call"
  /\ out \in AdapterOutcomes(api_providers[frame[t].provider].type)
  /\ UNCHANGED <<api_providers, local_llm_available, initialized, clock>>
  /\ IF out = Success
     THEN /\ frame' = [Settled EXCEPT ![t] =
                 Finish(frame[t], "ok", frame[t].provider, current_provider_index)]
          /\ handled' = NoError
          /\ UNCHANGED <<current_provider_index, rate_limit_cooldown, running,
                         raisedAt>>
     ELSE Except(t, frame[t], frame[t].provider, out, rate_limit_cooldown)

\* time passes
Tick ==
  /\ UNCHANGED besideGateway
  /\ UNCHANGED started
  /\ clock + TickStep <= MaxClock
  /\ clock' = clock + TickStep
  /\ frame' = Settled
  /\ handled' = NoError
  /\ UNCHANGED <<api_providers, local_llm_available, initialized,
                 current_provider_index, rate_limit_cooldown, running, raisedAt>>

GatewayNext ==
  \/ \E avail \in BOOLEAN : Initialize(avail)
  \/ \E c \in Capabilities : BeginDispatch(c)
  \/ \E t \in 1..MaxDispatches, ok \in BOOLEAN : LocalReturns(t, ok)
  \/ \E t \in 1..MaxDispatches, manyTexts \in BOOLEAN, out \in Outcomes :
       LoopStep(t, manyTexts, out)
  \/ \E t \in 1..MaxDispatches, out \in Outcomes : CallReturns(t, out)
  \/ Tick

\* ------------------------------------------------------------ vector store
\* settings.chunk_size, settings.chunk_overlap
SettingsChunkSize == 1024
SettingsChunkOverlap == 100

Max(a, b) == IF a >= b THEN a ELSE b
Min(a, b) == IF a <= b THEN a ELSE b
UpTo(S, n) == UNION {[1..m -> S] : m \in 0..n}

\* DocumentProcessor.__init__
chunk_size == SettingsChunkSize * 2
chunk_overlap == Max(50, SettingsChunkOverlap \div 2)

\* Documents: the extracted text as the lengths of its sentences.
Docs == {"A", "B", "E"}
DocText == [d \in Docs |->
              CASE d = "A" -> <<1500, 1000>>
                [] d = "B" -> <<800>>
                [] OTHER -> << >>]

\* hashlib.md5(document_text.encode()).hexdigest(): one digest per text
NoHash == "None"
DocHash == [d \in Docs |-> "md5_" \o d]

NewChunk(d, chunk_id, current) ==
  [id |-> chunk_id, doc |-> d, length |-> current]

\* chunk_text: current is len(current_chunk), 0 for the empty string
RECURSIVE ChunkFrom(_, _, _, _, _)
ChunkFrom(d, sentences, k, current, made) ==
  IF k > Len(sentences)
  THEN IF current > 0 THEN Append(made, NewChunk(d, Len(made), current))
       ELSE made
  ELSE
    LET sentence == sentences[k] IN
    IF current + sentence > chunk_size
    THEN IF current > 0
         THEN ChunkFrom(d, sentences, k + 1,
                        IF chunk_overlap > 0
                        THEN Min(chunk_overlap, current) + 1 + sentence
                        ELSE sentence,
                        Append(made, NewChunk(d, Len(made), current)))
         ELSE ChunkFrom(d, sentences, k + 1, sentence, made)
    ELSE ChunkFrom(d, sentences, k + 1,
                   IF current > 0 THEN current + 1 + sentence ELSE sentence,
                   made)

chunk_text(d) == ChunkFrom(d, DocText[d], 1, 0, << >>)

\* the rows of the embeddings array: one vector per chunk, in chunk order
Embeddings(cs) == [k \in 1..Len(cs) |-> [doc |-> cs[k].doc, row |-> k]]

NoFile == [exists |-> FALSE, data |-> << >>]
File(x) == [exists |-> TRUE, data |-> x]


NoCall == [hash |-> NoHash, how |-> "none", encodes |-> 0]

IdleLoad ==
  [pc |-> "idle", doc |-> "E", arg |-> << >>, hash |-> NoHash, how |-> "none",
   encodes |-> 0, overlap |-> FALSE, prev |-> NoCall,
   pre |-> << >>, post |-> << >>]

Hashes == {DocHash[d] : d \in Docs}

\* what a call sees of the store
Snapshot(cs, ix, h) == [chunks |-> cs, index |-> ix, hash |-> h]

\* VectorStore.initialize: a fresh index, then _load_index when both files exist
\* mutant of restored_hash: the hash of the restored document is known
restored_hash_kept(cs) == IF cs = << >> THEN NoHash ELSE DocHash[cs[1].doc]

\* self._document_hash after __init__ and initialize: __init__ sets None,
\* and _load_index restores the index and the chunks but no hash
restored_hash(cs) == NoHash

StoreInit ==
  /\ \/ index_file = NoFile /\ chunks_file = NoFile
     \/ \E d \in Docs : /\ index_file = File(Embeddings(chunk_text(d)))
                        /\ chunks_file = File(chunk_text(d))
  /\ index = IF index_file.exists /\ chunks_file.exists THEN index_file.data ELSE << >>
  /\ chunks = IF index_file.exists /\ chunks_file.exists THEN chunks_file.data ELSE << >>
  /\ document_hash = restored_hash(chunks)
  /\ loads = 0
  /\ load = [k \in 1..MaxLoads |-> IdleLoad]
  /\ lastDone = NoCall
  /\ encodeCalls = [h \in Hashes |-> 0]
  /\ queryEmbeds = 0

LoadActive(f) == f.pc = "encode"

\* The frames with those of the calls that have returned or raised released.
SettledLoads ==
  [u \in 1..MaxLoads |-> IF load[u].pc = "done" THEN IdleLoad ELSE load[u]]

\* mutant of CacheHit: the cache is never used
CacheHitNever(hash, stored, cs) == FALSE

\* if document_hash and self._document_hash == document_hash and len(self.chunks) > 0
CacheHit(hash, stored, cs) == hash # NoHash /\ stored = hash /\ Len(cs) > 0

\* the call returns or raises
Returned(f, how, cs, ix, h) ==
  [f EXCEPT !.pc = "done", !.how = how, !.post = Snapshot(cs, ix, h)]

Summary(f) == [hash |-> f.hash, how |-> f.how, encodes |-> f.encodes]

\* the frame a new add_documents call gets
FreeLoad ==
  CHOOSE u \in 1..MaxLoads :
    /\ SettledLoads[u].pc = "idle"
    /\ \A v \in 1..MaxLoads : SettledLoads[v].pc = "idle" => u <= v

\* add_documents(chunks, document_hash) is called: up to `await encode`
add_documents(d, hash) ==
  /\ loads < MaxLoads
  /\ hash \in {DocHash[d], NoHash}
  /\ loads' = loads + 1
  /\ LET k == FreeLoad
         arg == chunk_text(d)
         f0 == [IdleLoad EXCEPT
                  !.doc = d, !.arg = arg, !.hash = hash,
                  !.overlap = \E u \in 1..MaxLoads : LoadActive(load[u]),
                  !.prev = lastDone,
                  !.pre = Snapshot(chunks, index, document_hash)]
         others == [u \in 1..MaxLoads |->
                      IF LoadActive(load[u]) THEN [load[u] EXCEPT !.overlap = TRUE]
                      ELSE SettledLoads[u]]
     IN IF arg = << >>
        THEN \* no chunks provided: return
             /\ load' = [others EXCEPT ![k] =
                    Returned(f0, "noop", chunks, index, document_hash)]
             /\ lastDone' = Summary(load'[k])
             /\ UNCHANGED <<chunks, index, document_hash, encodeCalls>>
        ELSE IF CacheHit(hash, document_hash, chunks)
        THEN \* document already processed: return
             /\ load' = [others EXCEPT ![k] =
                    Returned(f0, "hit", chunks, index, document_hash)]
             /\ lastDone' = Summary(load'[k])
             /\ UNCHANGED <<chunks, index, document_hash, encodeCalls>>
        ELSE \* clear existing data, then await the embeddings
             /\ chunks' = << >>
             /\ index' = << >>
             /\ load' = [others EXCEPT ![k] =
                    [f0 EXCEPT !.pc = "encode", !.encodes = @ + 1]]
             /\ encodeCalls' = IF hash = NoHash THEN encodeCalls
                               ELSE [encodeCalls EXCEPT ![hash] = @ + 1]
             /\ UNCHANGED <<document_hash, lastDone>>
  /\ UNCHANGED <<index_file, chunks_file, queryEmbeds>>

\* a caller of add_documents, whoever it is
BeginLoad(d, hash) ==
  /\ UNCHANGED besideStore
  /\ add_documents(d, hash)

\* _save_index: the index file, then the chunk file; an error is logged
SaveIndex(ix, cs, written) ==
  /\ index_file' = IF written >= 1 THEN File(ix) ELSE index_file
  /\ chunks_file' = IF written >= 2 THEN File(cs) ELSE chunks_file

\* add_documents from `await self.embedding_service.encode(...)` on
add_documents_resumed(k, ok, written) ==
  /\ load[k].pc = "encode"
  /\ IF ok
     THEN LET ix == index \o Embeddings(load[k].arg) IN
          /\ index' = ix
          /\ chunks' = load[k].arg
          /\ document_hash' = load[k].hash
          /\ SaveIndex(ix, load[k].arg, written)
          /\ load' = [SettledLoads EXCEPT ![k] =
                 Returned(load[k], "loaded", load[k].arg, ix, load[k].hash)]
     ELSE /\ load' = [SettledLoads EXCEPT ![k] =
                 Returned(load[k], "raised", chunks, index, document_hash)]
          /\ UNCHANGED <<chunks, index, document_hash, index_file, chunks_file>>
  /\ lastDone' = Summary(load'[k])
  /\ UNCHANGED <<loads, encodeCalls, queryEmbeds>>

\* `await self.embedding_service.encode(...)` returns or raises
EncodeReturns(k, ok, written) ==
  /\ UNCHANGED besideStore
  /\ add_documents_resumed(k, ok, written)

\* No search has been made.
NoResults ==
  [pc |-> "idle", hits |-> << >>, how |-> "none", found |-> 0, document |-> 0,
   fallback |-> FALSE, top_k |-> 0, stored |-> 0]

\* what a search leaves alone besides the store
besideResults ==
  <<gatewayVars, requestVars, pathVars, extraVars, scores, lengths, top_k,
    context>>

\* the longest index the loads can leave, and its row numbers with the
\* label -1 that faiss gives to a result it does not have
IndexRows == 1..(MaxLoads * Len(chunk_text("A")))
Labels == IndexRows \cup {-1}

\* self.index.search(query_embedding, k) on an index of ntotal vectors: k
\* labels, distinct rows first (in the order of their scores, which the
\* query decides), -1 where the index has no more vectors
index_labels(ntotal, k) ==
  {h \in [1..k -> Labels] :
     /\ \A i \in 1..k : IF i <= ntotal THEN h[i] \in 1..ntotal ELSE h[i] = -1
     /\ \A i, j \in 1..k : (i < j /\ h[i] # -1) => h[i] # h[j]}

\* the loop over zip(scores[0], indices[0]) against a list of n chunks:
\* `if idx < len(self.chunks)` keeps the rows below n and the label -1,
\* which self.chunks[idx] reads as the last chunk; rank is i + 1
RECURSIVE ValidResults(_, _, _)
ValidResults(h, n, i) ==
  IF i > Len(h) THEN << >>
  ELSE IF h[i] <= n
  THEN <<[chunk |-> IF h[i] = -1 THEN n ELSE h[i], rank |-> i]>>
       \o ValidResults(h, n, i + 1)
  ELSE ValidResults(h, n, i + 1)

\* search(query, top_k) is called: [] at once on an empty chunk list, else
\* up to `await self.embedding_service.encode_query(query)`
Search(k) ==
  /\ UNCHANGED besideResults
  /\ results.pc \in {"idle", "searched", "raised"}
  /\ load' = SettledLoads
  /\ UNCHANGED <<chunks, index, document_hash, index_file, chunks_file, loads,
                 lastDone, encodeCalls>>
  /\ IF chunks = << >>
     THEN /\ results' = [NoResults EXCEPT !.pc = "searched", !.top_k = k]
          /\ UNCHANGED queryEmbeds
     ELSE /\ queryEmbeds < MaxSearches
          /\ queryEmbeds' = queryEmbeds + 1
          /\ results' = [NoResults EXCEPT !.pc = "embedding", !.top_k = k]

\* search from the return of encode_query on: index.search with
\* min(top_k, len(self.chunks)) on the store as it is now, then the results
\* (ok: encode_query returned, and faiss accepted the k it was given)
SearchReturns(ok, labels) ==
  /\ UNCHANGED besideResults
  /\ results.pc = "embedding"
  /\ load' = SettledLoads
  /\ UNCHANGED <<chunks, index, document_hash, index_file, chunks_file, loads,
                 lastDone, encodeCalls, queryEmbeds>>
  /\ LET k == Min(results.top_k, Len(chunks))
     IN IF ~ok
        THEN /\ labels = << >>
             /\ results' = [results EXCEPT !.pc = "raised", !.stored = Len(chunks)]
        ELSE /\ labels \in index_labels(Len(index), k)
             /\ results' = [results EXCEPT
                    !.pc = "searched", !.stored = Len(chunks),
                    !.hits = ValidResults(labels, Len(chunks), 1)]

StoreNext ==
  \/ \E d \in Docs, hash \in Hashes \cup {NoHash} : BeginLoad(d, hash)
  \/ \E k \in 1..MaxLoads, ok \in BOOLEAN, written \in 0..2 : EncodeReturns(k, ok, written)
  \/ \E k \in 1..MaxTopK : Search(k)
  \/ \E ok \in BOOLEAN, labels \in UpTo(Labels, MaxTopK) : SearchReturns(ok, labels)

\* ---------------------------------------------------------- specifications
vars == <<gatewayVars, storeVars, requestVars, pathVars, searchVars, extraVars>>

\* The gateway as MultiAPIService.__init__ leaves it, with no dispatch made.
GatewayAtRest ==
  /\ local_llm_available = FALSE /\ initialized = FALSE
  /\ current_provider_index = 0
  /\ clock = 0 /\ started = 0 /\ running = 0
  /\ frame = [t \in 1..MaxDispatches |-> IdleFrame]
  /\ handled = NoError

\* No request has arrived.
RequestsAtRest ==
  /\ req = << >>
  /\ question = << >>

\* No dispatch has been made on either path.
PathsAtRest ==
  /\ embedding_gateway = << >>
  /\ query_gateway = << >>
  /\ pathLog = << >>

SearchAtRest ==
  /\ scores = << >> /\ lengths = << >> /\ top_k = 0
  /\ results = NoResults /\ context = 0

\* VectorStore.initialize has run (the startup is not under study).
StartupAtRest == startup = [pc |-> "initialized", embed |-> TRUE, read |-> "none", load |-> "none"]

\* No encode call is under study.
EmbedAtRest == embedded = [pc |-> "idle", path |-> "none", raw |-> << >>, rows |-> << >>]

\* no availability check and no extraction is under study
AvailabilityAtRest ==
  availability = [pc |-> "idle", table |-> << >>, name |-> "none", now |-> 0,
                  returned |-> TRUE, after |-> << >>]
SectionsAtRest ==
  sections = [pc |-> "idle", paragraphs |-> << >>, taken |-> << >>, length |-> 0]
AnswerAtRest ==
  answer = [pc |-> "idle", path |-> "none", raw |-> << >>, returned |-> << >>]
PureAtRest == AvailabilityAtRest /\ SectionsAtRest /\ AnswerAtRest

ExtrasAtRest == StartupAtRest /\ EmbedAtRest /\ PureAtRest

\* The gateway on its own: the store stays as initialize left it.
Init ==
  /\ GatewayInit
  /\ RequestsAtRest /\ PathsAtRest /\ SearchAtRest /\ ExtrasAtRest
  /\ chunks = << >> /\ index = << >> /\ document_hash = NoHash
  /\ index_file = NoFile /\ chunks_file = NoFile
  /\ loads = 0
  /\ load = [k \in 1..MaxLoads |-> IdleLoad]
  /\ lastDone = NoCall /\ encodeCalls = [h \in Hashes |-> 0] /\ queryEmbeds = 0
Next == GatewayNext
Spec == Init /\ [][Next]_vars

\* the next step of the coroutine of dispatch t
DispatchStep(t) ==
  \/ \E ok \in BOOLEAN : LocalReturns(t, ok)
  \/ \E manyTexts \in BOOLEAN, out \in Outcomes : LoopStep(t, manyTexts, out)
  \/ \E out \in Outcomes : CallReturns(t, out)

\* The event loop resumes a coroutine that can run: the loop of a dispatch
\* goes on, and an awaited provider call, local or remote, comes back (the
\* assumption under which termination is claimed).
Fairness == \A t \in 1..MaxDispatches : WF_vars(DispatchStep(t))

\* Termination is explored on the registries of up to MaxLiveProviders
\* providers.
MaxLiveProviders == 2
InitLive == Init /\ NumProviders <= MaxLiveProviders
SpecLive == InitLive /\ [][Next]_vars /\ Fairness

\* The vector store on its own: the embedding call is an await that returns
\* or raises, whatever the gateway behind it does.
InitStore ==
  /\ StoreInit
  /\ api_providers = << >>
  /\ rate_limit_cooldown = << >>
  /\ raisedAt = << >>
  /\ GatewayAtRest
  /\ RequestsAtRest /\ PathsAtRest /\ SearchAtRest /\ ExtrasAtRest
NextStore == StoreNext
SpecStore == InitStore /\ [][NextStore]_vars

\* ----------------------------------------------------------------- requests
\* run_query_internal: one coroutine per request, at most one add_documents
\* call each, then one process_query task per question.
Requests == 1..MaxLoads
QuestionIds == 1..MaxQuestions

\* what a search reads of the store: the chunk list, the index, and whether
\* an add_documents call stands between its reset and its repopulation
Sight(cs, ix, resetting) ==
  [chunks |-> cs, vectors |-> Len(ix), midReset |-> resetting]
NoSight == [chunks |-> << >>, vectors |-> 0, midReset |-> FALSE]

IdleRequest ==
  [pc |-> "idle", doc |-> "E", nq |-> 0, slot |-> 0, how |-> "none",
   finished |-> << >>, answers |-> << >>]

IdleQuestion ==
  [pc |-> "idle", looked |-> FALSE, first |-> NoSight, searched |-> FALSE,
   second |-> NoSight, gateway |-> "none", direct |-> "none", answer |-> "none"]

\* asyncio.gather(*[process_single_query(q) for q in request.questions]):
\* the tasks are created together
Tasks(nq) ==
  [i \in QuestionIds |->
     IF i <= nq THEN [IdleQuestion EXCEPT !.pc = "start"] ELSE IdleQuestion]

NoTasks == [i \in QuestionIds |-> IdleQuestion]

Over(r) == req[r].pc \in {"responded", "error"}

\* The coroutines and tasks with those of the requests that are over
\* released: a request is kept for one state after its response.
SettledRequests == [r \in Requests |-> IF Over(r) THEN IdleRequest ELSE req[r]]
SettledQuestions == [r \in Requests |-> IF Over(r) THEN NoTasks ELSE question[r]]

RECURSIVE QuestionsInFlight(_)
QuestionsInFlight(r) ==
  IF r = 0 THEN 0 ELSE SettledRequests[r].nq + QuestionsInFlight(r - 1)

\* the request a new call of run_query_internal becomes
FreeRequest ==
  CHOOSE r \in Requests :
    /\ SettledRequests[r].pc = "idle"
    /\ \A v \in Requests : SettledRequests[v].pc = "idle" => r <= v

\* mutant of Awaited: add_documents is started and not awaited
AwaitedNever(pc) == TRUE

\* `await vector_store.add_documents(...)`: the coroutine goes on when the
\* call has returned or raised
Awaited(pc) == pc = "done"

\* mutant of AfterLoad: an error of add_documents is swallowed
AfterLoadSwallowed(how) == "questions"

\* run_query_internal after add_documents: an exception goes to the handler
\* that answers with HTTP 500, a return goes on to asyncio.gather
AfterLoad(how) == IF how = "raised" THEN "error" ELSE "questions"

\* run_query_internal is called: extraction, hash, chunking (extracted is
\* false when process_document or chunk_text raises) and add_documents up to
\* its first await
RunQuery(d, nq, extracted) ==
  /\ UNCHANGED <<gatewayVars, pathVars, searchVars, extraVars>>
  /\ \E r \in Requests : SettledRequests[r].pc = "idle"
  /\ QuestionsInFlight(MaxLoads) + nq <= MaxTasks
  /\ LET r == FreeRequest IN
     IF ~extracted
     THEN \* process_document raises: HTTP 500
          /\ req' = [SettledRequests EXCEPT ![r] =
                 [IdleRequest EXCEPT !.pc = "error", !.doc = d, !.nq = nq,
                                     !.how = "extraction"]]
          /\ load' = SettledLoads
          /\ UNCHANGED <<chunks, index, document_hash, index_file, chunks_file,
                         loads, lastDone, encodeCalls, queryEmbeds>>
          /\ question' = SettledQuestions
     ELSE /\ add_documents(d, DocHash[d])
          /\ LET k == FreeLoad
                 f == load'[k]
                 phase == IF Awaited(f.pc) THEN AfterLoad(f.how) ELSE "loading"
             IN /\ req' = [SettledRequests EXCEPT ![r] =
                       [IdleRequest EXCEPT !.pc = phase, !.doc = d, !.nq = nq,
                                           !.slot = k, !.how = f.how]]
                /\ question' = [SettledQuestions EXCEPT ![r] =
                       IF phase = "questions" THEN Tasks(nq) ELSE NoTasks]

\* the add_documents call of request r returns or raises (here _save_index
\* writes both files; its failures are explored under SpecStore)
LoadReturns(r, ok) ==
  /\ UNCHANGED <<gatewayVars, pathVars, searchVars, extraVars>>
  /\ req[r].pc = "loading"
  /\ add_documents_resumed(req[r].slot, ok, 2)
  /\ LET how == load'[req[r].slot].how
         phase == AfterLoad(how)
     IN /\ req' = [SettledRequests EXCEPT ![r] = [@ EXCEPT !.pc = phase, !.how = how]]
        /\ question' = [SettledQuestions EXCEPT ![r] =
               IF phase = "questions" THEN Tasks(req[r].nq) ELSE NoTasks]

\* what the question tasks leave alone
besideQuestion ==
  <<gatewayVars, pathVars, searchVars, extraVars, chunks, index, document_hash,
    index_file, chunks_file, loads, lastDone, encodeCalls, queryEmbeds>>

\* an add_documents call has cleared a populated store and is suspended
\* between index.reset() and index.add()
MidReset ==
  \E k \in 1..MaxLoads : LoadActive(load[k]) /\ load[k].pre.chunks # << >>

\* process_query up to its first await: _preprocess_query, then search
\* reads self.chunks; an empty store gives no context and the task goes on
\* to _generate_answer, a non-empty one awaits the query embedding
QuestionStarts(r, i) ==
  /\ UNCHANGED besideQuestion
  /\ question[r][i].pc = "start"
  /\ load' = SettledLoads
  /\ question' = [SettledQuestions EXCEPT ![r][i] =
         [@ EXCEPT !.pc = IF chunks = << >> THEN "generate" ELSE "embed",
                   !.looked = TRUE,
                   !.first = Sight(chunks, index, MidReset)]]
  /\ req' = SettledRequests

\* `await self.embedding_service.encode_query(query)` returns or raises; on
\* a return search reads self.index and self.chunks; get_relevant_context
\* turns an exception of search into the empty context
QueryEmbedded(r, i, ok) ==
  /\ UNCHANGED besideQuestion
  /\ question[r][i].pc = "embed"
  /\ load' = SettledLoads
  /\ question' = [SettledQuestions EXCEPT ![r][i] =
         IF ok
         THEN [@ EXCEPT !.pc = "generate", !.searched = TRUE,
                        !.second = Sight(chunks, index, MidReset)]
         ELSE [@ EXCEPT !.pc = "generate"]]
  /\ req' = SettledRequests

\* what the gateway call and the direct Gemini call of one question do:
\* the direct call is made only when the gateway call raised
Generations ==
  {<<"ok", "none">>, <<"raised", "text">>, <<"raised", "empty">>,
   <<"raised", "raised">>}

\* mutant of process_query: no exception handler around the generation
process_query_unguarded(gw, direct) ==
  IF gw = "ok" \/ direct = "text" THEN "answer"
  ELSE IF direct = "empty" THEN "apology" ELSE "raise"

\* process_query from _generate_answer on: the gateway's answer, else the
\* direct Gemini answer, else (empty response, or an exception caught by
\* one of the handlers) an apology
process_query(gw, direct) ==
  IF gw = "ok" THEN "answer"
  ELSE IF direct = "text" THEN "answer"
  ELSE "apology"

\* `await self._generate_answer(query, context)` is over: the task ends
Generated(r, i, gw, direct) ==
  /\ UNCHANGED besideQuestion
  /\ question[r][i].pc = "generate"
  /\ <<gw, direct>> \in Generations
  /\ load' = SettledLoads
  /\ question' = [SettledQuestions EXCEPT ![r][i] =
         [@ EXCEPT !.pc = "done", !.gateway = gw, !.direct = direct,
                   !.answer = process_query(gw, direct)]]
  /\ req' = [SettledRequests EXCEPT ![r].finished = Append(@, i)]

\* mutant of gather: the results in the order the tasks finished
gather_as_completed(r) ==
  [j \in 1..req[r].nq |->
     [q |-> req[r].finished[j], text |-> question[r][req[r].finished[j]].answer]]

\* asyncio.gather: the results in the order of the awaitables
gather(r) ==
  [j \in 1..req[r].nq |-> [q |-> j, text |-> question[r][j].answer]]

\* run_query_internal after `await asyncio.gather(...)`: the response, or
\* HTTP 500 when a task raised
Respond(r) ==
  /\ UNCHANGED besideQuestion
  /\ req[r].pc = "questions"
  /\ \A i \in 1..req[r].nq : question[r][i].pc = "done"
  /\ load' = SettledLoads
  /\ req' = [SettledRequests EXCEPT ![r] =
         IF \E i \in 1..req[r].nq : question[r][i].answer = "raise"
         THEN [@ EXCEPT !.pc = "error", !.how = "question"]
         ELSE [@ EXCEPT !.pc = "responded", !.answers = gather(r)]]
  /\ question' = SettledQuestions

RequestNext ==
  \/ \E d \in Docs, nq \in QuestionIds, extracted \in BOOLEAN : RunQuery(d, nq, extracted)
  \/ \E r \in Requests, ok \in BOOLEAN : LoadReturns(r, ok)
  \/ \E r \in Requests, i \in QuestionIds : QuestionStarts(r, i)
  \/ \E r \in Requests, i \in QuestionIds, ok \in BOOLEAN : QueryEmbedded(r, i, ok)
  \/ \E r \in Requests, i \in QuestionIds, gw \in {"ok", "raised"},
        direct \in {"none", "text", "empty", "raised"} : Generated(r, i, gw, direct)
  \/ \E r \in Requests : Respond(r)

\* Requests against the vector store: what the gateways do shows as the
\* return or raise of each awaited call.
InitRequest ==
  /\ StoreInit
  /\ api_providers = << >>
  /\ rate_limit_cooldown = << >>
  /\ raisedAt = << >>
  /\ GatewayAtRest
  /\ req = [r \in Requests |-> IdleRequest]
  /\ question = [r \in Requests |-> NoTasks]
  /\ PathsAtRest /\ SearchAtRest /\ ExtrasAtRest
NextRequest == RequestNext
SpecRequest == InitRequest /\ [][NextRequest]_vars

\* -------------------------------------------------- the two gateway objects
\* EmbeddingService and QueryProcessor each construct a MultiAPIService; the
\* embed path dispatches on the first, the generate path on the second.
Paths == {"embed", "generate"}

\* MultiAPIService.__init__, the part a dispatch works on
NewGateway ==
  [cursor |-> 0, cooldown |-> [n \in Registered |-> 0],
   local_llm_available |-> FALSE]

\* MultiAPIService.initialize on the gateway object gw: the flag takes what
\* the local service's detection returned (False when it raised)
MultiAPIService_initialize(gw, detected) ==
  [gw EXCEPT !.local_llm_available = detected]

\* self.multi_api_service of the service object behind each path
GatewayOf(path) == IF path = "embed" THEN embedding_gateway ELSE query_gateway

NoDispatch ==
  [path |-> "none", at |-> 0, cur |-> 0, invoked |-> << >>, outcomes |-> << >>,
   result |-> "none"]

\* mutant of Succeeded: the cursor is put back on the first provider
SucceededRewound(gw, cd) == [gw EXCEPT !.cursor = 0, !.cooldown = cd]

\* `return await self._generate_...`: the gateway as a successful call
\* leaves it, the cursor on the provider that answered
Succeeded(gw, cd) == [gw EXCEPT !.cooldown = cd]

\* The provider loop of generate_embeddings (c = "embed") and generate_text
\* (c = "text") on the gateway object gw, from the given attempt on; outs[k]
\* is what the adapter of the k-th provider does when it is called.
RECURSIVE ProviderLoop(_, _, _, _, _, _)
ProviderLoop(c, outs, attempt, gw, invoked, now) ==
  IF attempt >= NumProviders
  THEN [gateway |-> gw, invoked |-> invoked, result |-> "raised"]
  ELSE
    LET provider == api_providers[gw.cursor + 1]
        advanced == NextIndex(gw.cursor)
        cd == EvictExpired(gw.cooldown, provider.name, now)
    IN IF ~is_provider_available(gw.cooldown, provider.name, now)
       THEN ProviderLoop(c, outs, attempt + 1, [gw EXCEPT !.cursor = advanced],
                         invoked, now)
       ELSE IF c = "embed" /\ provider.type = "perplexity"
       THEN ProviderLoop(c, outs, attempt + 1,
                         [gw EXCEPT !.cursor = advanced, !.cooldown = cd],
                         invoked, now)
       ELSE IF outs[gw.cursor + 1] = Success
       THEN [gateway |-> Succeeded(gw, cd),
             invoked |-> Append(invoked, provider.name), result |-> "ok"]
       ELSE ProviderLoop(c, outs, attempt + 1,
                         [gw EXCEPT !.cursor = advanced,
                                    !.cooldown = HandleError(cd, provider.name,
                                                   outs[gw.cursor + 1], now)],
                         Append(invoked, provider.name), now)

\* what an adapter may do here: return, raise a rate-limit message, raise
\* another message
PathOutcomes ==
  {Success,
   CHOOSE m \in 1..Len(ErrorMessages) : Classified[m],
   CHOOSE m \in 1..Len(ErrorMessages) : ~Classified[m] /\ m # NotImplementedMsg,
   NotImplementedMsg}

\* what the adapters may do in one dispatch, by registry position
AdapterRuns(outs) ==
  \A k \in 1..MaxProviders :
    IF k <= NumProviders
    THEN outs[k] \in AdapterOutcomes(api_providers[k].type)
    ELSE outs[k] = Success

\* the registry position of a provider
Position(name) == CHOOSE k \in 1..NumProviders : api_providers[k].name = name

\* the providers a dispatch put into cooldown
CooledIn(run, now) ==
  {run.invoked[k] : k \in {j \in 1..Len(run.invoked) :
     run.gateway.cooldown[run.invoked[j]] = now + CooldownMinutes * 60}}

\* One dispatch, from call to return or raise, with no other dispatch in
\* between: encode -> generate_embeddings on the embedding service's
\* gateway, _generate_answer -> generate_text on the query processor's.
PathDispatch(path, outs) ==
  /\ UNCHANGED <<gatewayVars, storeVars, requestVars, searchVars, extraVars>>
  /\ pathLog.count < MaxDispatches
  /\ AdapterRuns(outs)
  /\ LET run == ProviderLoop(IF path = "embed" THEN "embed" ELSE "text", outs, 0,
                             GatewayOf(path), << >>, clock)
         this == [path |-> path, at |-> clock,
                  cur |-> GatewayOf(path).cursor,
                  invoked |-> run.invoked,
                  outcomes |-> [k \in 1..Len(run.invoked) |->
                                  outs[Position(run.invoked[k])]],
                  result |-> run.result]
     IN /\ embedding_gateway' = IF path = "embed" THEN run.gateway
                                ELSE embedding_gateway
        /\ query_gateway' = IF path = "generate" THEN run.gateway
                            ELSE query_gateway
        /\ pathLog' =
             [count |-> pathLog.count + 1,
              last |-> this,
              prev |-> pathLog.latest[path],
              latest |-> [pathLog.latest EXCEPT ![path] = this],
              cooledAt |-> [pathLog.cooledAt EXCEPT ![path] =
                  [n \in Registered |->
                     IF n \in CooledIn(run, clock) THEN clock ELSE @[n]]]]

\* time passes between dispatches
PathTick ==
  /\ UNCHANGED <<storeVars, requestVars, pathVars, searchVars, extraVars>>
  /\ clock + TickStep <= MaxClock
  /\ clock' = clock + TickStep
  /\ UNCHANGED <<api_providers, local_llm_available, initialized,
                 current_provider_index, rate_limit_cooldown, started, running,
                 frame, handled, raisedAt>>

\* The vector store as __init__ leaves it, with no file on disk.
StoreAtRest ==
  /\ chunks = << >> /\ index = << >> /\ document_hash = NoHash
  /\ index_file = NoFile /\ chunks_file = NoFile
  /\ loads = 0
  /\ load = [k \in 1..MaxLoads |-> IdleLoad]
  /\ lastDone = NoCall /\ encodeCalls = [h \in Hashes |-> 0] /\ queryEmbeds = 0

\* The lifespan hook has built the services: both gateway objects hold the
\* registry that setup_providers built from the same environment, no
\* cooldown, cursor 0; the local service is not available.
InitPaths ==
  /\ api_providers \in {setup_providers(keys) :
        keys \in {K \in SUBSET Credentials : Cardinality(K) <= MaxProviders}}
  /\ rate_limit_cooldown = << >>
  /\ raisedAt = << >>
  /\ GatewayAtRest
  /\ StoreAtRest /\ RequestsAtRest /\ SearchAtRest /\ ExtrasAtRest
  /\ embedding_gateway = NewGateway
  /\ query_gateway = NewGateway
  /\ pathLog = [count |-> 0, last |-> NoDispatch, prev |-> NoDispatch,
                latest |-> [p \in Paths |-> NoDispatch],
                cooledAt |-> [p \in Paths |-> [n \in Registered |-> -1]]]
NextPaths ==
  \/ \E path \in Paths, outs \in [1..MaxProviders -> PathOutcomes] :
       PathDispatch(path, outs)
  \/ PathTick
SpecPaths == InitPaths /\ [][NextPaths]_vars

\* ------------------------------------------- the callers of the gateways
\* encode (provider "multi") and _generate_answer, each a gateway call and,
\* in its except branch, the direct Gemini call.
\* generate_embeddings (c = "embed") and generate_text (c = "text") as a
\* whole on the gateway object gw: the local service first when the flag is
\* set (localOk: it returns), the provider loop otherwise or after it raised.
GatewayCall(c, outs, localOk, gw, now) ==
  IF gw.local_llm_available /\ localOk
  THEN [gateway |-> gw, invoked |-> << >>, result |-> "ok", local |-> "ok"]
  ELSE LET run == ProviderLoop(c, outs, 0, gw, << >>, now)
       IN [gateway |-> run.gateway, invoked |-> run.invoked,
           result |-> run.result,
           local |-> IF gw.local_llm_available THEN "raised" ELSE "none"]

\* genai.configure(api_key=provider["api_key"]) at the head of each Gemini
\* adapter: the key the genai module holds after the adapters named in
\* invoked have run, key being the one it held before
RECURSIVE Configured(_, _)
Configured(key, invoked) ==
  IF invoked = << >> THEN key
  ELSE LET n == invoked[Len(invoked)]
       IN IF \E k \in 1..Len(GeminiNames) : GeminiNames[k] = n
          THEN n
          ELSE Configured(key, SubSeq(invoked, 1, Len(invoked) - 1))

\* mutant of direct_fallback: the direct call is made whatever the gateway did
direct_fallback_always(result, directOut) == directOut

\* the except branch of encode (provider "multi") and of _generate_answer:
\* the direct Gemini call is made when the gateway call raised, and what it
\* does is directOut; "none" when it is not made
direct_fallback(result, directOut) ==
  IF result = "raised" THEN directOut ELSE "none"

NoCallerRun ==
  [path |-> "none", at |-> 0, invoked |-> << >>, result |-> "none",
   local |-> "none", flag |-> FALSE, direct |-> "none", directCalls |-> 0,
   target |-> "none", cooling |-> {}]

\* One call of encode (path "embed") or _generate_answer (path "generate"),
\* from call to return or raise, with no other call in between.
CallerDispatch(path, outs, localOk, directOut) ==
  /\ UNCHANGED <<gatewayVars, storeVars, requestVars, searchVars, extraVars>>
  /\ pathLog.count < MaxDispatches
  /\ localOk \/ GatewayOf(path).local_llm_available
  /\ AdapterRuns(outs)
  /\ LET run == GatewayCall(IF path = "embed" THEN "embed" ELSE "text", outs,
                            localOk, GatewayOf(path), clock)
         key == Configured(pathLog.genai_key, run.invoked)
         direct == direct_fallback(run.result, directOut)
     IN /\ directOut = "ok" \/ direct # "none"
        /\ embedding_gateway' = IF path = "embed" THEN run.gateway
                                ELSE embedding_gateway
        /\ query_gateway' = IF path = "generate" THEN run.gateway
                            ELSE query_gateway
        /\ pathLog' =
             [count |-> pathLog.count + 1,
              genai_key |-> key,
              last |-> [path |-> path, at |-> clock,
                        invoked |-> run.invoked,
                        result |-> run.result,
                        local |-> run.local,
                        flag |-> GatewayOf(path).local_llm_available,
                        direct |-> direct,
                        directCalls |-> IF direct = "none" THEN 0 ELSE 1,
                        target |-> IF direct = "none" THEN "none" ELSE key,
                        cooling |-> {n \in Registered :
                                       run.gateway.cooldown[n] > clock}]]

\* The lifespan hook has built the services: both gateway objects hold the
\* registry that setup_providers built from the same environment, no
\* cooldown, cursor 0. EmbeddingService.initialize has run initialize() on
\* its own gateway, which set the flag from the detection of the local
\* service; nothing runs it on the query processor's gateway. The genai
\* module holds settings.gemini_api_key, the key of gemini_1.
InitCallers ==
  /\ api_providers \in {setup_providers(keys) :
        keys \in {K \in SUBSET Credentials : Cardinality(K) <= MaxProviders}}
  /\ rate_limit_cooldown = << >>
  /\ raisedAt = << >>
  /\ GatewayAtRest
  /\ StoreAtRest /\ RequestsAtRest /\ SearchAtRest /\ ExtrasAtRest
  /\ embedding_gateway \in
       {MultiAPIService_initialize(NewGateway, detected) : detected \in BOOLEAN}
  /\ query_gateway = NewGateway
  /\ pathLog = [count |-> 0, genai_key |-> GeminiNames[1], last |-> NoCallerRun]
NextCallers ==
  \/ \E path \in Paths, outs \in [1..MaxProviders -> PathOutcomes],
        localOk \in BOOLEAN, directOut \in {"ok", "raised"} :
       CallerDispatch(path, outs, localOk, directOut)
  \/ PathTick
SpecCallers == InitCallers /\ [][NextCallers]_vars

\* ------------------------------------------------- search and its context
\* One search against a populated store, as a function of the stored
\* vectors, the query and top_k. A score is the inner product of a stored
\* vector with the query, in thousandths.
SentenceLengths == {800, 1900}
ScoreValues == {-250, 500, 875}

\* len(chunk.content): content is current_chunk.strip(), and a chunk that
\* begins with the overlap text may begin with a blank
ContentLengths(cs) ==
  {l \in [1..Len(cs) -> {cs[k].length - b : k \in 1..Len(cs), b \in {0, 1}}] :
     \A k \in 1..Len(cs) :
       l[k] \in (IF k = 1 THEN {cs[k].length}
                 ELSE {cs[k].length - 1, cs[k].length})}

\* self.index.search(query_embedding, k) of a faiss.IndexFlatIP: the k
\* vectors of highest inner product, best first; the library fixes no order
\* among vectors of equal score
index_search(sc, k) ==
  {h \in [1..k -> 1..Len(sc)] :
     /\ \A i, j \in 1..k : i < j => h[i] # h[j] /\ sc[h[i]] >= sc[h[j]]
     /\ \A x \in 1..Len(sc) :
          (\A i \in 1..k : h[i] # x) => \A i \in 1..k : sc[x] <= sc[h[i]]}

\* the loop over zip(scores[0], indices[0]): one SearchResult per row, in
\* the order of the rows (every row index is below len(self.chunks) here)
SearchResults(h, sc) ==
  [i \in 1..Len(h) |-> [chunk |-> h[i], score |-> sc[h[i]], rank |-> i]]

RECURSIVE Digits(_)
Digits(n) == IF n < 10 THEN 1 ELSE 1 + Digits(n \div 10)

\* len(f"{score:.3f}")
ScoreTextLength(score) ==
  (IF score < 0 THEN 1 ELSE 0)
  + Digits((IF score < 0 THEN -score ELSE score) \div 1000) + 1 + 3

\* len(f"[Score: {result.score:.3f}] {result.chunk.content}")
PartLength(hit, ls) == 8 + ScoreTextLength(hit.score) + 2 + ls[hit.chunk]

\* len("\n\n".join(context_parts))
RECURSIVE JoinedLength(_, _, _)
JoinedLength(hits, ls, k) ==
  IF k > Len(hits) THEN 0
  ELSE PartLength(hits[k], ls) + (IF k < Len(hits) THEN 2 ELSE 0)
       + JoinedLength(hits, ls, k + 1)

\* get_relevant_context: "" when search found nothing or raised
get_relevant_context(res, ls) ==
  IF res.pc = "searched" THEN JoinedLength(res.hits, ls, 1) ELSE 0

besideSearch == <<gatewayVars, storeVars, requestVars, pathVars, extraVars>>

\* search(query, top_k), called by get_relevant_context: [] on an empty
\* store, else the query embedding (which returns or raises) and the rows
\* of index.search; rows is the answer of the index
search(ok, rows) ==
  /\ UNCHANGED besideSearch
  /\ results.pc = "idle"
  /\ IF lengths = << >>
     THEN /\ rows = << >>
          /\ results' = [results EXCEPT !.pc = "searched", !.hits = << >>]
     ELSE IF ~ok
     THEN /\ rows = << >>
          /\ results' = [results EXCEPT !.pc = "raised", !.hits = << >>]
     ELSE /\ rows \in index_search(scores, Min(top_k, Len(lengths)))
          /\ results' = [results EXCEPT !.pc = "searched",
                                         !.hits = SearchResults(rows, scores)]
  /\ UNCHANGED <<scores, lengths, top_k, context>>

\* len(document_text) of the documents a question comes with: None or "",
\* and a text
DocumentLengths == {0, chunk_size}

\* mutant of use_document_text: an empty or missing text is used as well
use_document_text_always(found, document) == found = 0

\* `if not context and document_text:`
use_document_text(found, document) == found = 0 /\ document > 0

\* process_query: the context of get_relevant_context, and when that is
\* empty and there is a document text, the sections that
\* _extract_relevant_sections takes from it (extracted is their length)
BuildContext(extracted, document) ==
  /\ UNCHANGED besideSearch
  /\ results.pc \in {"searched", "raised"}
  /\ extracted <= document
  /\ LET found == get_relevant_context(results, lengths)
         fallback == use_document_text(found, document)
     IN /\ context' = IF fallback THEN extracted ELSE found
        /\ results' = [results EXCEPT !.pc = "context", !.how = results.pc,
                                      !.found = found, !.document = document,
                                      !.fallback = fallback]
  /\ UNCHANGED <<scores, lengths, top_k>>

\* A document has been chunked and embedded, and a question is asked.
InitSearch ==
  /\ api_providers = << >>
  /\ rate_limit_cooldown = << >>
  /\ raisedAt = << >>
  /\ GatewayAtRest
  /\ StoreAtRest /\ RequestsAtRest /\ PathsAtRest /\ ExtrasAtRest
  /\ \E text \in UpTo(SentenceLengths, MaxSentences) :
       LET cs == ChunkFrom("Q", text, 1, 0, << >>)
       IN /\ lengths \in ContentLengths(cs)
          /\ scores \in [1..Len(cs) -> ScoreValues]
  /\ top_k \in 1..MaxTopK
  /\ results = NoResults
  /\ context = 0
NextSearch ==
  \/ \E ok \in BOOLEAN, rows \in UpTo(1..MaxSentences, MaxTopK) : search(ok, rows)
  \/ \E extracted \in {0, ExtractMaxLength}, document \in DocumentLengths :
       BuildContext(extracted, document)
SpecSearch == InitSearch /\ [][NextSearch]_vars

\* ----------------------------------------------------------------- startup
\* VectorStore.initialize against the files an earlier run left on disk.

\* what _save_index can have written: the index of one document, or of two
\* when add_documents calls overlapped, and the chunk list of one document
SavedIndexes ==
  {Embeddings(chunk_text(d)) : d \in Docs}
  \cup {Embeddings(chunk_text(d)) \o Embeddings(chunk_text(e)) : d, e \in Docs}
SavedChunks == {chunk_text(d) : d \in Docs}

\* mutant of load_index: the except handler does not reset the store
load_index_no_reset(ixf, chf, readOk, loadOk) ==
  IF ixf.exists /\ chf.exists
  THEN [index |-> IF readOk THEN ixf.data ELSE << >>,
        chunks |-> IF readOk /\ loadOk THEN chf.data ELSE << >>,
        read |-> IF readOk THEN "ok" ELSE "raised",
        load |-> IF ~readOk THEN "none" ELSE IF loadOk THEN "ok" ELSE "raised"]
  ELSE [index |-> << >>, chunks |-> << >>, read |-> "none", load |-> "none"]

\* _load_index on the fresh index initialize made: when both files exist,
\* faiss.read_index, then pickle.load; an exception of either resets the
\* index and the chunk list
load_index(ixf, chf, readOk, loadOk) ==
  IF ixf.exists /\ chf.exists
  THEN [index |-> IF readOk /\ loadOk THEN ixf.data ELSE << >>,
        chunks |-> IF readOk /\ loadOk THEN chf.data ELSE << >>,
        read |-> IF readOk THEN "ok" ELSE "raised",
        load |-> IF ~readOk THEN "none" ELSE IF loadOk THEN "ok" ELSE "raised"]
  ELSE [index |-> << >>, chunks |-> << >>, read |-> "none", load |-> "none"]

\* VectorStore.initialize: the embedding service is initialized (an
\* exception of it is re-raised), a fresh index is made, _load_index runs
initialize(embedOk, readOk, loadOk) ==
  /\ UNCHANGED <<gatewayVars, requestVars, pathVars, searchVars, embedVars,
                 pureVars>>
  /\ startup.pc = "constructed"
  /\ IF ~embedOk
     THEN /\ startup' = [startup EXCEPT !.pc = "raised", !.embed = FALSE]
          /\ UNCHANGED <<chunks, index>>
     ELSE LET got == load_index(index_file, chunks_file, readOk, loadOk)
          IN /\ index' = got.index
             /\ chunks' = got.chunks
             /\ startup' = [pc |-> "initialized", embed |-> TRUE,
                            read |-> got.read, load |-> got.load]
  /\ UNCHANGED <<document_hash, index_file, chunks_file, loads, load, lastDone,
                 encodeCalls, queryEmbeds>>

\* VectorStore.__init__ has run; the files are those of an earlier run
InitStartup ==
  /\ api_providers = << >>
  /\ rate_limit_cooldown = << >>
  /\ raisedAt = << >>
  /\ GatewayAtRest
  /\ RequestsAtRest /\ PathsAtRest /\ SearchAtRest
  /\ chunks = << >> /\ index = << >> /\ document_hash = NoHash
  /\ index_file \in {NoFile} \cup {File(x) : x \in SavedIndexes}
  /\ chunks_file \in {NoFile} \cup {File(x) : x \in SavedChunks}
  /\ loads = 0
  /\ load = [k \in 1..MaxLoads |-> IdleLoad]
  /\ lastDone = NoCall /\ encodeCalls = [h \in Hashes |-> 0] /\ queryEmbeds = 0
  /\ startup = [pc |-> "constructed", embed |-> TRUE, read |-> "none", load |-> "none"]
  /\ EmbedAtRest /\ PureAtRest
NextStartup ==
  \E embedOk \in BOOLEAN, readOk \in BOOLEAN, loadOk \in BOOLEAN :
    initialize(embedOk, readOk, loadOk)
SpecStartup == InitStartup /\ [][NextStartup]_vars

\* ----------------------------------------------------------- normalisation
\* One encode call of add_documents, by the L2 norm of each vector. A norm
\* is a fraction num/den; the providers' norms are given in units of 1e-8.
NormUnit == 100000000      \* 1.0
NormEpsilon == 1           \* the 1e-8 added to the norm

\* the ways an embedding reaches add_documents: the local service, the
\* Gemini and OpenAI adapters of the gateway, the direct Gemini fallback
EmbedPaths == {"local", "gemini", "openai", "direct"}

\* norms of the embeddings a provider returns: zero, tiny, about 0.01,
\* a half, one, two
RawNorms ==
  {0, 1, 999998, 999999, 1000000, NormUnit \div 2, NormUnit, 2 * NormUnit}

\* mutant of Normalized: the embedding is used as the provider returned it
NormalizedNot(m) == [num |-> m, den |-> NormUnit]

\* embeddings_array / (norms + 1e-8), by its effect on the norm of a row:
\* a row of norm m becomes a row of norm m / (m + 1e-8)
Normalized(m) == [num |-> m, den |-> m + NormEpsilon]

\* the encode call returns: every path normalises the rows in the same way
EncodeNormalizes ==
  /\ UNCHANGED <<gatewayVars, storeVars, requestVars, pathVars, searchVars,
                 startupVars, pureVars>>
  /\ embedded.pc = "called"
  /\ embedded' = [embedded EXCEPT
         !.pc = "encoded",
         !.rows = [k \in 1..Len(embedded.raw) |-> Normalized(embedded.raw[k])]]

\* self.index.add(embeddings.astype(np.float32)): the rows as encode
\* returned them
IndexAdd ==
  /\ UNCHANGED <<gatewayVars, storeVars, requestVars, pathVars, searchVars,
                 startupVars, pureVars>>
  /\ embedded.pc = "encoded"
  /\ embedded' = [embedded EXCEPT !.pc = "added"]

\* add_documents has called encode on some texts, and a provider of some
\* path has returned their embeddings
InitEmbed ==
  /\ api_providers = << >>
  /\ rate_limit_cooldown = << >>
  /\ raisedAt = << >>
  /\ GatewayAtRest
  /\ StoreAtRest /\ RequestsAtRest /\ PathsAtRest /\ SearchAtRest
  /\ StartupAtRest /\ PureAtRest
  /\ \E path \in EmbedPaths, n \in 1..MaxTexts :
       \E raw \in [1..n -> RawNorms] :
         embedded = [pc |-> "called", path |-> path, raw |-> raw, rows |-> << >>]
NextEmbed ==
  \/ EncodeNormalizes
  \/ IndexAdd
SpecEmbed == InitEmbed /\ [][NextEmbed]_vars

\* ------------------------------------------------ the availability check
\* is_provider_available as a function of the cooldown table, the provider
\* and the time of the call. An expiry is a multiple of TickStep; 0 stands
\* for "no entry", as in the tables above.
CheckedNames == {"gemini_1", "openai", "perplexity"}
Instants == {k * TickStep : k \in 0..(MaxClock \div TickStep + 1)}

\* one call of is_provider_available(provider): the value returned and the
\* table it leaves
CheckAvailable ==
  /\ UNCHANGED <<gatewayVars, storeVars, requestVars, pathVars, searchVars,
                 startupVars, embedVars, sections, answer>>
  /\ availability.pc = "called"
  /\ availability' = [availability EXCEPT
         !.pc = "returned",
         !.returned = is_provider_available(availability.table,
                                            availability.name, availability.now),
         !.after = EvictExpired(availability.table, availability.name,
                                availability.now)]

\* the caller goes on with the table the check left
CheckedGoesOn ==
  /\ UNCHANGED <<gatewayVars, storeVars, requestVars, pathVars, searchVars,
                 startupVars, embedVars, sections, answer>>
  /\ availability.pc = "returned"
  /\ availability' = [availability EXCEPT !.pc = "done", !.table = availability.after]

InitAvailable ==
  /\ api_providers = << >>
  /\ rate_limit_cooldown = << >>
  /\ raisedAt = << >>
  /\ GatewayAtRest
  /\ StoreAtRest /\ RequestsAtRest /\ PathsAtRest /\ SearchAtRest
  /\ StartupAtRest /\ EmbedAtRest /\ SectionsAtRest /\ AnswerAtRest
  /\ \E table \in [CheckedNames -> Instants], name \in CheckedNames,
        now \in Instants \ {0} :
       availability = [pc |-> "called", table |-> table, name |-> name,
                       now |-> now, returned |-> TRUE, after |-> table]
NextAvailable ==
  \/ CheckAvailable
  \/ CheckedGoesOn
SpecAvailable == InitAvailable /\ [][NextAvailable]_vars

\* --------------------------------------------------- the lexical fallback
\* _extract_relevant_sections as a function of the lines of the document
\* text. A line is its length, the blanks at its end (counted in the
\* length) and the terms of the question that occur in it.
query_terms == {"notice", "period"}
ParagraphLengths ==
  {MinParagraphLength, ExtractMaxLength \div 2 - 2, ExtractMaxLength \div 2,
   ExtractMaxLength + 1}
Paragraphs ==
  [length : ParagraphLengths, blanks : {0, 1}, terms : SUBSET query_terms]

\* len(para.strip())
StrippedLength(para) == para.length - para.blanks

\* sum(1 for term in query_terms if term in para_lower)
Score(para) == Cardinality({term \in query_terms : term \in para.terms})

\* the loop over the paragraphs: the lines of 20 characters or more that
\* score above 0, by position, in the order of the document
RECURSIVE scored_paragraphs(_, _)
scored_paragraphs(ps, k) ==
  IF k > Len(ps) THEN << >>
  ELSE (IF StrippedLength(ps[k]) < MinParagraphLength THEN << >>
        ELSE IF Score(ps[k]) > 0 THEN <<k>> ELSE << >>)
       \o scored_paragraphs(ps, k + 1)

\* scored_paragraphs.sort(key=lambda x: x[0], reverse=True): list.sort is
\* stable, and with reverse=True equal keys keep their original order
RECURSIVE SortByScore(_, _, _)
SortByScore(ps, order, score) ==
  IF score = 0 THEN << >>
  ELSE LET Has(k) == Score(ps[k]) = score
       IN SelectSeq(order, Has) \o SortByScore(ps, order, score - 1)

\* the loop that concatenates: para + "\n\n" while the paragraph fits, and
\* out of the loop at the first one that does not
RECURSIVE Combine(_, _, _, _, _)
Combine(ps, order, k, taken, length) ==
  IF k > Len(order) THEN [taken |-> taken, length |-> length]
  ELSE IF length + ps[order[k]].length <= ExtractMaxLength
  THEN Combine(ps, order, k + 1, Append(taken, order[k]),
               length + ps[order[k]].length + 2)
  ELSE [taken |-> taken, length |-> length]

\* _extract_relevant_sections: the paragraphs taken and len(context.strip())
extract_relevant_sections(ps) ==
  LET order == SortByScore(ps, scored_paragraphs(ps, 1), Cardinality(query_terms))
      got == Combine(ps, order, 1, << >>, 0)
  IN [taken |-> got.taken,
      length |-> IF got.taken = << >> THEN 0
                 ELSE got.length - 2 - ps[got.taken[Len(got.taken)]].blanks]

\* one call of _extract_relevant_sections returns
ExtractSections ==
  /\ UNCHANGED <<gatewayVars, storeVars, requestVars, pathVars, searchVars,
                 startupVars, embedVars, availability, answer>>
  /\ sections.pc = "called"
  /\ LET got == extract_relevant_sections(sections.paragraphs)
     IN sections' = [sections EXCEPT !.pc = "returned", !.taken = got.taken,
                                     !.length = got.length]

\* process_query has found no vector context and calls the fallback on a
\* document text
InitSections ==
  /\ api_providers = << >>
  /\ rate_limit_cooldown = << >>
  /\ raisedAt = << >>
  /\ GatewayAtRest
  /\ StoreAtRest /\ RequestsAtRest /\ PathsAtRest /\ SearchAtRest
  /\ StartupAtRest /\ EmbedAtRest /\ AvailabilityAtRest /\ AnswerAtRest
  /\ \E ps \in UpTo(Paragraphs, MaxParagraphs) :
       sections = [pc |-> "called", paragraphs |-> ps, taken |-> << >>,
                   length |-> 0]
NextSections == ExtractSections
SpecSections == InitSections /\ [][NextSections]_vars

\* ------------------------------------------------------ the answer text
\* _generate_answer as a function of the text the model returned. A text is
\* a sequence of pieces: the prefix "Answer:" (in any case; "Response:" is
\* treated alike), a long run of letters, one letter, '.', '?', a blank, a
\* newline.
Pieces == {"Answer:", "W", "w", ".", "?", " ", "\n"}
Whitespace == {" ", "\n"}
Terminal == {".", "!", "?"}

PieceLength(piece) ==
  CASE piece = "Answer:" -> 7
    [] piece = "W" -> LongRun
    [] OTHER -> 1

\* len(text)
RECURSIVE TextLength(_)
TextLength(text) ==
  IF text = << >> THEN 0 ELSE PieceLength(Head(text)) + TextLength(Tail(text))

\* the text without the run of pieces of the set that it begins with
RECURSIVE DropLeading(_, _)
DropLeading(text, set) ==
  IF text # << >> /\ Head(text) \in set THEN DropLeading(Tail(text), set)
  ELSE text

RECURSIVE Reversed(_)
Reversed(text) ==
  IF text = << >> THEN << >> ELSE Append(Reversed(Tail(text)), Head(text))

\* str.strip()
Strip(text) ==
  Reversed(DropLeading(Reversed(DropLeading(text, Whitespace)), Whitespace))

\* re.sub(r'^(Answer:|Response:)\s*', '', answer, flags=re.IGNORECASE)
StripPrefix(text) ==
  IF text # << >> /\ Head(text) = "Answer:"
  THEN DropLeading(Tail(text), Whitespace)
  ELSE text

\* re.sub(r'\n+', ' ', answer) with set = {newline}, and
\* re.sub(r'\s+', ' ', answer) with set = Whitespace
RECURSIVE Collapse(_, _)
Collapse(text, set) ==
  IF text = << >> THEN << >>
  ELSE IF Head(text) \in set
  THEN <<" ">> \o Collapse(DropLeading(text, set), set)
  ELSE <<Head(text)>> \o Collapse(Tail(text), set)

\* mutant of EnsureEnding: the text is left as it ends
EnsureEndingNot(text) == text

\* `if answer and not answer.endswith(('.', '!', '?')): answer += '.'`
EnsureEnding(text) ==
  IF text # << >> /\ text[Len(text)] \notin Terminal
  THEN Append(text, ".") ELSE text

\* QueryProcessor._post_process_answer
post_process_answer(text) ==
  Strip(EnsureEnding(Collapse(Collapse(StripPrefix(text), {"\n"}), Whitespace)))

\* the fixed sentences _generate_answer and _generate_answer_gemini_direct
\* return in place of an answer; each ends with a full stop
Apology == <<"W", ".">>

\* where the text of a call comes from: the gateway returned it, the direct
\* call returned it after the gateway raised, or the direct call raised
AnswerPaths == {"gateway", "direct", "raised"}

\* _generate_answer: the gateway's text post-processed; after a gateway
\* failure the direct call's text, stripped and post-processed when it is
\* not empty, else an apology; an apology when the direct call raised
generate_answer(path, text) ==
  CASE path = "gateway" -> post_process_answer(text)
    [] path = "direct" ->
         IF text # << >> THEN post_process_answer(Strip(text)) ELSE Apology
    [] OTHER -> Apology

\* one call of _generate_answer returns
GenerateAnswer ==
  /\ UNCHANGED <<gatewayVars, storeVars, requestVars, pathVars, searchVars,
                 startupVars, embedVars, availability, sections>>
  /\ answer.pc = "called"
  /\ answer' = [answer EXCEPT !.pc = "returned",
                              !.returned = generate_answer(answer.path, answer.raw)]

\* process_query has its context and calls _generate_answer; the model
\* will return some text
InitAnswer ==
  /\ api_providers = << >>
  /\ rate_limit_cooldown = << >>
  /\ raisedAt = << >>
  /\ GatewayAtRest
  /\ StoreAtRest /\ RequestsAtRest /\ PathsAtRest /\ SearchAtRest
  /\ StartupAtRest /\ EmbedAtRest /\ AvailabilityAtRest /\ SectionsAtRest
  /\ \E path \in AnswerPaths, text \in UpTo(Pieces, MaxAnswerPieces) :
       /\ path = "raised" => text = << >>
       /\ answer = [pc |-> "called", path |-> path, raw |-> text,
                    returned |-> << >>]
NextAnswer == GenerateAnswer
SpecAnswer == InitAnswer /\ [][NextAnswer]_vars

\* ------------------------------------------------------------------ claims
Frames == 1..MaxDispatches


Last(q) == q[Len(q)]

RemoteCalls(f) == SelectSeq(f.invoked, LAMBDA i : i # Local)

Supports(i, c) == ~(c = "embed" /\ api_providers[i].type = "perplexity")

AllSupport(c) == \A i \in 1..NumProviders : Supports(i, c)

\* the k-th provider in cyclic registry order from cursor position cur
Cyclic(cur, k) == ((cur + k - 1) % NumProviders) + 1

\* A dispatch that ran alone, without the local provider, over a registry
\* in which every provider supports the capability and none is in cooldown.
PlainDispatch(f) ==
  /\ f.pc # "idle"
  /\ ~f.overlap
  /\ ~f.startLocal
  /\ f.startCooled = {}
  /\ NumProviders >= 1
  /\ AllSupport(f.cap)

\* C1: a single dispatch over N >= 1 capable providers, none in cooldown and
\* no local provider, attempts the providers in cyclic registry order from
\* the cursor, each at most once, and returns the result of the first one
\* that succeeds; the terminal error comes only after all N were attempted.
C1_FallbackCompleteness ==
  \A t \in Frames :
    LET f == frame[t] IN
    PlainDispatch(f) =>
      /\ Len(f.invoked) <= NumProviders
      /\ \A k \in 1..Len(f.invoked) : f.invoked[k] = Cyclic(f.startCur, k)
      /\ f.result = "ok" => f.from = Last(f.invoked) /\ f.attempt = Len(f.invoked) - 1
      /\ f.result = "terminal" => Len(f.invoked) = NumProviders

\* C1 witness: from a cursor that is not 0, the first N-1 = 2 providers fail
\* without a rate limit and the third succeeds.
C1_Witness ==
  \E t \in Frames :
    LET f == frame[t] IN
    /\ PlainDispatch(f)
    /\ NumProviders = 3
    /\ f.startCur # 0
    /\ f.pc = "done" /\ f.result = "ok"
    /\ Len(f.invoked) = 3 /\ f.from = Cyclic(f.startCur, 3)
    /\ \A n \in Registered : raisedAt[n] = -1

CooldownSeconds == CooldownMinutes * 60

\* the provider a step of dispatch t starts a call to (0: none)
CallStarted(t) ==
  IF Len(frame'[t].invoked) > Len(frame[t].invoked) THEN Last(frame'[t].invoked)
  ELSE Local

\* C2: once a call to a provider has raised a rate-limit error, no dispatch
\* on the gateway starts a call to that provider before the cooldown expiry,
\* 5 minutes after the raise, whether the dispatch began later or was
\* already running.
C2_CooldownRespected ==
  [][\A t \in Frames :
       CallStarted(t) # Local =>
         LET n == api_providers[CallStarted(t)].name IN
         raisedAt[n] = -1 \/ clock >= raisedAt[n] + CooldownSeconds]_vars

\* C2 witness: a dispatch that began while the provider under the cursor was
\* cooling down after a rate-limit raise has finished without calling it.
C2_Witness ==
  \E t \in Frames :
    LET f == frame[t]
        i == f.startCur + 1
    IN /\ NumProviders >= 2
       /\ f.pc = "done"
       /\ Supports(i, f.cap)
       /\ api_providers[i].name \in f.startCooled
       /\ raisedAt[api_providers[i].name] # -1
       /\ clock < raisedAt[api_providers[i].name] + CooldownSeconds
       /\ \A k \in 1..Len(f.invoked) : f.invoked[k] # i
       /\ Len(RemoteCalls(f)) >= 1

\* C3: a dispatch in which no provider succeeds ends in the terminal error,
\* raised after the loop has run through the registry (at once when the
\* registry is empty); the error of an individual provider never reaches the
\* caller.
C3_GracefulExhaustion ==
  \A t \in Frames :
    LET f == frame[t] IN
    f.pc = "done" =>
      \/ f.result = "ok" /\ f.from = Last(f.invoked)
      \/ f.result = "terminal" /\ f.from = -1 /\ f.attempt = NumProviders

\* C3 witness: every provider of a two-provider registry was called and
\* raised, and the dispatch ended in the terminal error.
C3_Witness ==
  \E t \in Frames :
    LET f == frame[t] IN
    /\ NumProviders = 2
    /\ f.pc = "done" /\ f.result = "terminal"
    /\ Len(RemoteCalls(f)) = 2

\* C4: the except handler gives the failed provider a cooldown entry exactly
\* when the lower-cased message contains 'rate limit', 'quota', '429' or
\* 'too many requests'; any other failure leaves the table as it was; either
\* way the cursor moves on by one and the dispatch goes on with its loop.
C4_CooldownIffRateLimit ==
  handled # NoError =>
    /\ rate_limit_cooldown =
         IF handled.msg \in RateLimitMessages
         THEN [handled.cdBefore EXCEPT ![handled.name] = clock + CooldownSeconds]
         ELSE handled.cdBefore
    /\ current_provider_index = (handled.curBefore + 1) % NumProviders
    /\ running # 0 /\ frame[running].pc = "loop"

\* C4 witness: a mixed-case "Rate Limit hit" has put the provider in cooldown
\* and, in another run, a "Read timed out" has not.
C4_Witness ==
  /\ handled # NoError
  /\ handled.msg = 1
  /\ handled.cdBefore[handled.name] = 0
  /\ rate_limit_cooldown[handled.name] = clock + CooldownSeconds

\* C5: with concurrent dispatches on one gateway, every dispatch calls each
\* remote provider at most once, and raises the terminal error only after it
\* has itself called every capable provider that was never rate-limited.
C5_Serialized ==
  \A t \in Frames :
    LET f == frame[t] IN
    /\ \A j, k \in 1..Len(f.invoked) : j # k => f.invoked[j] # f.invoked[k]
    /\ (f.pc = "done" /\ f.result = "terminal") =>
         \A i \in 1..NumProviders :
           (Supports(i, f.cap) /\ raisedAt[api_providers[i].name] = -1)
             => \E k \in 1..Len(f.invoked) : f.invoked[k] = i

\* C6: a dispatch on a gateway whose local provider is marked available
\* calls the local provider first, wherever the cursor is and whatever is in
\* cooldown; it calls a remote provider only after the local call raised, and
\* returns the local result otherwise.
C6_LocalFirst ==
  \A t \in Frames :
    LET f == frame[t] IN
    (f.pc # "idle" /\ f.startLocal) =>
      /\ f.invoked # << >> /\ f.invoked[1] = Local
      /\ Len(f.invoked) > 1 => f.localOut = "raised"
      /\ f.localOut = "ok" => f.pc = "done" /\ f.result = "ok" /\ f.from = Local

\* C6 witness: the cursor was not at 0 and a provider was in cooldown when
\* the dispatch began; the local call raised and a remote provider followed.
C6_Witness ==
  \E t \in Frames :
    LET f == frame[t] IN
    /\ f.startLocal /\ f.startCur # 0 /\ f.startCooled # {}
    /\ f.localOut = "raised"
    /\ Len(f.invoked) >= 2 /\ f.invoked[1] = Local

\* C7 as stated: after every dispatch that called a remote provider the
\* cursor is one past the provider called last.
C7_CursorAfterLast ==
  \A t \in Frames :
    LET f == frame[t] IN
    (f.pc = "done" /\ RemoteCalls(f) # << >>) =>
      f.endCur = Last(RemoteCalls(f)) % NumProviders

\* a step in which a dispatch saw a provider fail or skipped one
Passed == \E t \in Frames : frame'[t].attempt > frame[t].attempt

\* C7 amended: in every interleaving the cursor moves by one position, and
\* only in a step in which a provider fails or is skipped; a success leaves
\* it alone.  So a dispatch that ran alone leaves the cursor advanced by one
\* for every provider that failed or was skipped: on the index of the
\* provider that succeeded, or, after the terminal error, back where it began.
C7_CursorAdvancedPerFailure ==
  [][/\ current_provider_index' =
          IF Passed THEN (current_provider_index + 1) % NumProviders
          ELSE current_provider_index
     /\ \A t \in Frames :
          LET f == frame'[t] IN
          (f.pc = "done" /\ ~f.overlap /\ NumProviders >= 1) =>
            /\ f.endCur = (f.startCur + f.attempt) % NumProviders
            /\ (f.result = "ok" /\ f.from # Local) => f.endCur = f.from - 1
            /\ f.result = "terminal" => f.endCur = f.startCur]_vars

\* C7 witness: a lone dispatch succeeded at its second provider and left the
\* cursor on it.
C7_Witness ==
  \E t \in Frames :
    LET f == frame[t] IN
    /\ f.pc = "done" /\ ~f.overlap /\ NumProviders = 3
    /\ f.result = "ok" /\ Len(RemoteCalls(f)) = 2
    /\ f.endCur = f.from - 1
    /\ f.endCur # Last(RemoteCalls(f)) % NumProviders

Loads == 1..MaxLoads

\* The call ran alone, right after a call that loaded the same content.
RepeatOf(f) ==
  /\ f.pc = "done"
  /\ ~f.overlap
  /\ f.hash # NoHash
  /\ f.arg # << >>
  /\ f.prev.hash = f.hash

\* C8: of two consecutive add_documents calls with the same non-empty hash
\* and non-empty chunk lists, the first of which succeeds, only the first
\* runs the embedding batch, and the second leaves the chunk list, the index
\* and the stored hash as they were.
C8_IdempotentCache ==
  \A k \in Loads :
    LET f == load[k] IN
    (RepeatOf(f) /\ f.prev.how = "loaded") =>
      /\ f.prev.encodes + f.encodes = 1
      /\ f.how = "hit"
      /\ f.post = f.pre
      /\ f.post.hash = f.hash /\ f.post.chunks = f.arg

\* C8 witness: document A was loaded and then passed in again.
C8_Witness ==
  \E k \in Loads :
    LET f == load[k] IN
    /\ RepeatOf(f) /\ f.prev.how = "loaded"
    /\ f.doc = "A" /\ f.how = "hit"
    /\ encodeCalls[DocHash["A"]] = 1

\* C9 as stated: the embedding batch of add_documents runs at most once for
\* each distinct content hash.
C9_OncePerHash ==
  \A h \in Hashes : encodeCalls[h] <= 1

\* C9 amended: in every interleaving a call runs the embedding batch at
\* most once, and not at all when it begins with its own content hash stored
\* over a non-empty chunk store.  So the batch runs at most once for each run
\* of consecutive, non-interleaved calls with the same content hash that
\* begins with a successful load: a call that follows a load or a cache hit
\* of its own hash embeds nothing.
C9_OncePerRun ==
  \A k \in Loads :
    LET f == load[k] IN
    /\ f.encodes <= 1
    /\ (f.pc # "idle" /\ f.hash # NoHash /\ f.pre.hash = f.hash
          /\ f.pre.chunks # << >>) => f.encodes = 0
    /\ (f.pc # "idle" /\ ~f.overlap /\ f.hash # NoHash /\ f.arg # << >>
          /\ f.prev.hash = f.hash /\ f.prev.how \in {"loaded", "hit"})
         => f.encodes = 0

\* C9 witness: document B was loaded, a question was asked against it, and B
\* was passed in again and served from the cache: one embedding batch in all.
C9_Witness ==
  \E k \in Loads :
    LET f == load[k] IN
    /\ f.pc = "done" /\ f.doc = "B" /\ ~f.overlap
    /\ f.how = "hit" /\ f.encodes = 0
    /\ f.prev = [hash |-> DocHash["B"], how |-> "loaded", encodes |-> 1]
    /\ \A h \in Hashes : encodeCalls[h] = IF h = DocHash["B"] THEN 1 ELSE 0
    /\ queryEmbeds > 0

\* C10: when add_documents returns without raising, the chunk store holds
\* exactly the chunks of the document passed in, in order, and never those
\* of a document loaded before.
C10_ReplacedWholesale ==
  \A k \in Loads :
    LET f == load[k] IN
    (f.pc = "done" /\ f.how # "raised") => f.post.chunks = chunk_text(f.doc)

\* C11: after initialize, restore from disk included, and after every
\* add_documents call that has returned or raised, the index holds as many
\* vectors as the chunk store holds chunks.
C11_IndexMatchesChunks ==
  /\ loads = 0 => Len(index) = Len(chunks)
  /\ \A k \in Loads :
       load[k].pc = "done" => Len(load[k].post.index) = Len(load[k].post.chunks)

\* what the searches of the questions have read of the store
Sights ==
  {question[t[1]][t[2]].first :
     t \in {u \in Requests \X QuestionIds : question[u[1]][u[2]].looked}}
  \cup {question[t[1]][t[2]].second :
          t \in {u \in Requests \X QuestionIds : question[u[1]][u[2]].searched}}

\* C12: a reset and repopulation of the store is atomic for the searches of
\* the questions in flight: no search reads the cleared store of an
\* add_documents call that has not yet repopulated it, and what a search
\* reads is a complete document, as many vectors as chunks.
C12_ResetAtomicForReaders ==
  \A s \in Sights :
    /\ ~(s.midReset /\ s.chunks = << >>)
    /\ s.vectors = Len(s.chunks)

\* the process_query tasks of request r are created in this step
TasksCreated(r) == question'[r][1].pc = "start" /\ question[r][1].pc # "start"

InQuestionPhase(r) ==
  /\ req[r].pc = "questions"
  /\ \E i \in 1..req[r].nq : question[r][i].pc # "done"

\* C14: while a request is in its question phase no step modifies the chunk
\* store or the index, whatever the other requests in flight do, and every
\* search of its questions reads the chunks of the request's own document.
C14_StoreReadOnlyDuringQuestions ==
  [][/\ (\E r \in Requests : InQuestionPhase(r)) =>
          chunks' = chunks /\ index' = index
     /\ \A r \in Requests, i \in QuestionIds :
          /\ question'[r][i].looked =>
                question'[r][i].first.chunks = chunk_text(req'[r].doc)
          /\ question'[r][i].searched =>
                question'[r][i].second.chunks = chunk_text(req'[r].doc)]_vars

\* C15: a request whose add_documents call returned ends with a response
\* that holds one answer string per question, the answer of question j at
\* position j, whatever the gateway and the direct Gemini call did for each
\* question and in whatever order the questions finished.
C15_OneAnswerPerQuestionInOrder ==
  \A r \in Requests :
    /\ req[r].pc = "error" => req[r].how \notin {"loaded", "hit", "noop", "question"}
    /\ req[r].pc = "responded" =>
          /\ Len(req[r].answers) = req[r].nq
          /\ \A j \in 1..req[r].nq :
                /\ req[r].answers[j].q = j
                /\ req[r].answers[j].text = question[r][j].answer
                /\ req[r].answers[j].text \in {"answer", "apology"}

C15_Witness ==
  \E r \in Requests :
    /\ req[r].pc = "responded" /\ req[r].how = "loaded" /\ req[r].nq = 2
    /\ req[r].finished = <<2, 1>>
    /\ question[r][1].gateway = "raised" /\ question[r][1].direct = "raised"
    /\ req[r].answers = <<[q |-> 1, text |-> "apology"], [q |-> 2, text |-> "answer"]>>

\* C16: process_query never raises. A question whose gateway call and whose
\* direct Gemini call both raise ends with an apology string, and a
\* question whose gateway call returns ends with a normal answer, whatever
\* happens to the other questions of the request.
C16_ProcessQueryNeverRaises ==
  \A r \in Requests, i \in QuestionIds :
    question[r][i].pc = "done" =>
      /\ question[r][i].answer \in {"answer", "apology"}
      /\ (question[r][i].gateway = "raised" /\ question[r][i].direct = "raised") =>
            question[r][i].answer = "apology"
      /\ question[r][i].gateway = "ok" => question[r][i].answer = "answer"

C16_Witness ==
  \E r \in Requests :
    /\ req[r].pc = "questions" /\ req[r].nq = 2
    /\ question[r][1].pc = "done" /\ question[r][2].pc = "done"
    /\ question[r][1].gateway = "ok" /\ question[r][1].answer = "answer"
    /\ question[r][2].gateway = "raised" /\ question[r][2].direct = "raised"
    /\ question[r][2].answer = "apology"

\* the document-load phase of a request failed: process_document or
\* chunk_text raised, or add_documents raised
LoadFailed(r) == req[r].how \in {"extraction", "raised"}

\* C17: a request ends in an error exactly when its document-load phase
\* failed; no question of such a request is processed, and a request whose
\* load phase passed never ends in an error, whatever its questions met.
C17_ErrorIffLoadFailed ==
  \A r \in Requests :
    /\ req[r].pc = "error" <=> LoadFailed(r)
    /\ req[r].pc = "error" => \A i \in QuestionIds : question[r][i].pc = "idle"
    /\ req[r].pc \in {"questions", "responded"} =>
          req[r].how \in {"loaded", "hit", "noop"}

C17_Witness ==
  \E r \in Requests :
    /\ req[r].pc = "error" /\ req[r].how = "raised" /\ req[r].nq = 2
    /\ \A i \in QuestionIds : question[r][i].pc = "idle"

\* C18: the cooldown table and the rotation cursor are one state shared by
\* the embed path and the generate path: both paths work on the same table
\* and cursor, and a dispatch of one path calls no provider that a dispatch
\* of the other path put into cooldown less than the cooldown period ago.
C18_CooldownSharedAcrossPaths ==
  /\ embedding_gateway = query_gateway
  /\ \A p \in Paths \ {pathLog.last.path} :
       \A k \in 1..Len(pathLog.last.invoked) :
         LET at == pathLog.cooledAt[p][pathLog.last.invoked[k]]
         IN at = -1 \/ pathLog.last.at >= at + CooldownMinutes * 60

\* the stored vectors a result list leaves out
LeftOut(hits) ==
  {x \in 1..Len(scores) : \A i \in 1..Len(hits) : hits[i].chunk # x}

\* C19: search returns min(top_k, size) results, the stored vectors of
\* highest inner product with the query, in descending order of score, and
\* among results of equal score the one of lower chunk index comes first.
C19_TopKDescendingTiesByIndex ==
  results.pc = "searched" =>
    LET hits == results.hits IN
    /\ Len(hits) = Min(top_k, Len(lengths))
    /\ \A i \in 1..Len(hits) :
         /\ hits[i].score = scores[hits[i].chunk]
         /\ hits[i].rank = i
         /\ \A x \in LeftOut(hits) : scores[x] <= hits[i].score
    /\ \A i, j \in 1..Len(hits) :
         i < j =>
           /\ hits[i].chunk # hits[j].chunk
           /\ hits[i].score >= hits[j].score
           /\ hits[i].score = hits[j].score => hits[i].chunk < hits[j].chunk

\* C20: the context process_query passes to the generation call is at most
\* 3000 characters long, whatever was retrieved.
C20_ContextWithinBudget ==
  results.pc = "context" => context <= 3000

\* C21: when the restore of the persisted index and chunk list fails,
\* whichever of the two loads raised, initialize does not raise and leaves
\* the index and the chunk store empty; when a file is missing nothing is
\* restored and both are empty; initialize raises only when the embedding
\* service could not be initialized.
C21_RestoreFailureStartsEmpty ==
  /\ startup.pc = "raised" => ~startup.embed
  /\ startup.pc = "initialized" =>
       /\ ("raised" \in {startup.read, startup.load}) =>
             index = << >> /\ chunks = << >>
       /\ ~(index_file.exists /\ chunks_file.exists) =>
             /\ startup.read = "none" /\ startup.load = "none"
             /\ index = << >> /\ chunks = << >>
       /\ (startup.read = "ok" /\ startup.load = "ok") =>
             index = index_file.data /\ chunks = chunks_file.data

\* the index file loaded and the chunk file did not
C21_Witness ==
  /\ startup.pc = "initialized"
  /\ startup.read = "ok" /\ startup.load = "raised"
  /\ index_file.data # << >> /\ chunks_file.data # << >>
  /\ index = << >> /\ chunks = << >>

\* the norm x is 1 within 1e-6
UnitNorm(x) ==
  (IF x.den >= x.num THEN x.den - x.num ELSE x.num - x.den) <= x.den \div 1000000

\* C22: every row added to the index has L2 norm 1 within 1e-6, on every
\* path, an all-zero embedding included.
C22_InsertedVectorsUnit ==
  embedded.pc = "added" =>
    \A k \in 1..Len(embedded.rows) : UnitNorm(embedded.rows[k])

\* C22, amended: every row added to the index is the provider's embedding
\* divided by its norm plus 1e-8, on every path; its norm is 1 within 1e-6
\* when the provider's embedding has norm 0.01 or more, and an all-zero
\* embedding is added as the all-zero row.
C22_InsertedVectorsUnitUnlessTiny ==
  embedded.pc = "added" =>
    /\ Len(embedded.rows) = Len(embedded.raw)
    /\ \A k \in 1..Len(embedded.rows) :
         /\ embedded.raw[k] >= NormUnit \div 100 => UnitNorm(embedded.rows[k])
         /\ embedded.raw[k] = 0 => embedded.rows[k].num = 0

C22_Witness ==
  /\ embedded.pc = "added" /\ embedded.path = "direct"
  /\ Len(embedded.rows) = 2
  /\ embedded.raw[1] = NormUnit \div 2 /\ UnitNorm(embedded.rows[1])
  /\ embedded.raw[2] = 0 /\ embedded.rows[2].num = 0

\* The latest dispatch and the one before it on the same gateway both called
\* a remote provider, over two providers or more, and the earlier one saw the
\* provider it called first fail with an error that names no rate limit.
FirstFailedBefore ==
  /\ NumProviders >= 2
  /\ pathLog.prev.path # "none"
  /\ Len(pathLog.prev.invoked) >= 1 /\ Len(pathLog.last.invoked) >= 1
  /\ pathLog.prev.outcomes[1] # Success
  /\ ~Classified[pathLog.prev.outcomes[1]]

C24_NoCallInsideCooldown ==
  pathLog.last.direct # "none" =>
    pathLog.last.target \notin pathLog.last.cooling

\* C25: when the local provider was detected at startup (the flag that
\* initialize() set on the embedding service's gateway), every generate
\* dispatch tries the local provider before any remote one, as embed
\* dispatches do.
C25_GenerateTriesLocalFirst ==
  (embedding_gateway.local_llm_available /\ pathLog.last.path = "generate")
    => pathLog.last.local # "none"

\* C26: the direct Gemini fallback of encode and _generate_answer is made
\* exactly when the gateway call of that invocation raised, and then once;
\* when the gateway call succeeds it is not made.
C26_DirectFallbackIffGatewayRaised ==
  pathLog.last.path # "none" =>
    /\ pathLog.last.directCalls = (IF pathLog.last.result = "raised" THEN 1 ELSE 0)
    /\ (pathLog.last.direct # "none") = (pathLog.last.result = "raised")

\* a second call whose gateway dispatch raised after trying a provider, and
\* which made the direct call
C26_Witness ==
  /\ pathLog.count = 2
  /\ pathLog.last.result = "raised"
  /\ pathLog.last.invoked # << >>
  /\ pathLog.last.directCalls = 1

\* the provider under the cursor is one the loop passes over: it is in
\* cooldown, or the dispatch wants embeddings and it is perplexity
InCooldown(name) == rate_limit_cooldown[name] # 0 /\ clock < rate_limit_cooldown[name]
PassedOver(t) ==
  LET p == api_providers[current_provider_index + 1]
  IN InCooldown(p.name) \/ (frame[t].cap = "embed" /\ p.type = "perplexity")

\* C27: a loop step that finds a provider in cooldown (embed or generate),
\* or perplexity in an embed dispatch, does not invoke it, creates no cooldown
\* entry for it, moves the cursor one past it and stays in the loop.
C27_SkippedNotInvokedCursorAdvances ==
  [][\A t \in DOMAIN frame :
       (/\ running = t /\ frame[t].pc = "loop"
        /\ frame[t].attempt < NumProviders
        /\ frame'[t] # frame[t]
        /\ PassedOver(t))
       => LET p == api_providers[current_provider_index + 1]
          IN /\ frame'[t].invoked = frame[t].invoked
             /\ frame'[t].pc = "loop"
             /\ frame'[t].attempt = frame[t].attempt + 1
             /\ current_provider_index' =
                  (current_provider_index + 1) % NumProviders
             /\ rate_limit_cooldown'[p.name] =
                  IF InCooldown(p.name) THEN rate_limit_cooldown[p.name] ELSE 0]_vars

\* C27 witness: an embed dispatch has passed over two providers without
\* calling any, perplexity and one that is in cooldown
C27_Witness ==
  \E t \in DOMAIN frame :
    /\ frame[t].pc = "loop" /\ frame[t].cap = "embed"
    /\ frame[t].attempt = 2 /\ frame[t].invoked = << >>
    /\ \E k \in 1..NumProviders : api_providers[k].type = "perplexity"
    /\ \E n \in Registered : InCooldown(n)

\* C28: is_provider_available returns true exactly when the provider has no
\* cooldown entry or the time of the call is at or past the entry's expiry;
\* after a check that returned true the table holds no entry for the
\* provider and the other entries as they were; after a check that returned
\* false the table is as it was.
C28_AvailableIffNoLiveEntry ==
  availability.pc = "returned" =>
    LET cd == availability.table
        p == availability.name
    IN /\ availability.returned = (cd[p] = 0 \/ availability.now >= cd[p])
       /\ availability.returned =>
            availability.after = [cd EXCEPT ![p] = 0]
       /\ ~availability.returned => availability.after = cd

\* C28 witness: a check made at the very instant of the expiry returned
\* true and deleted the entry
C28_Witness ==
  /\ availability.pc = "returned"
  /\ availability.table[availability.name] = availability.now
  /\ availability.returned
  /\ availability.after[availability.name] = 0

\* C29: process_query takes the lexical fallback exactly when the vector
\* context is empty and there is a document text; the vector context is
\* empty when the store holds no chunk and when the query embedding or the
\* search raised, and process_query goes on to its answer in both cases.
C29_FallbackIffNoVectorContext ==
  results.pc = "context" =>
    /\ results.fallback = (results.found = 0 /\ results.document > 0)
    /\ (lengths = << >> \/ results.how = "raised") => results.found = 0
    /\ results.how \in {"searched", "raised"}

\* C29 witness: the search raised against a populated store, and the
\* context was taken from the document text
C29_Witness ==
  /\ results.pc = "context"
  /\ results.how = "raised" /\ lengths # << >>
  /\ results.fallback /\ context = ExtractMaxLength

\* C30: the lexical fallback returns at most max_length (2000) characters,
\* made of paragraphs that share a term with the question, best score first
\* and equal scores in document order; and it returns a non-empty context
\* whenever some paragraph of 20 characters or more shares a term with the
\* question.
C30_FallbackCappedOrderedNonEmpty ==
  sections.pc = "returned" =>
    LET ps == sections.paragraphs
        taken == sections.taken
    IN /\ sections.length <= ExtractMaxLength
       /\ \A i \in 1..Len(taken) : Score(ps[taken[i]]) > 0
       /\ \A i, j \in 1..Len(taken) :
            i < j => \/ Score(ps[taken[i]]) > Score(ps[taken[j]])
                     \/ /\ Score(ps[taken[i]]) = Score(ps[taken[j]])
                        /\ taken[i] < taken[j]
       /\ (\E k \in 1..Len(ps) :
             StrippedLength(ps[k]) >= MinParagraphLength /\ Score(ps[k]) > 0)
            => sections.length > 0

\* C31: every answer that went through the post-processing is capped in
\* length: a text longer than the cap comes back shortened to at most the
\* cap, whichever provider and whichever path produced it.
C31_AnswerCapped ==
  (/\ answer.pc = "returned" /\ answer.path \in {"gateway", "direct"}
   /\ TextLength(answer.raw) > AnswerCap)
    => TextLength(answer.returned) <= AnswerCap

\* C32: every non-empty string that _generate_answer returns ends with
\* '.', '!' or '?'.
C32_AnswerEndsWithPunctuation ==
  (answer.pc = "returned" /\ answer.returned # << >>)
    => answer.returned[Len(answer.returned)] \in Terminal

\* C32 witness: the gateway's text ended with a blank after a letter, and
\* the answer returned ends with the full stop that was added
C32_Witness ==
  /\ answer.pc = "returned" /\ answer.path = "gateway"
  /\ Len(answer.raw) >= 2
  /\ answer.raw[Len(answer.raw)] = " "
  /\ answer.raw[Len(answer.raw) - 1] = "w"
  /\ answer.returned[Len(answer.returned)] = "."

\* C33: search on a non-empty store returns exactly min(top_k, number of
\* chunks) results, ranked 1..n in list order, each a distinct chunk at a
\* valid index of the chunk list; on an empty chunk list it returns [] and
\* embeds nothing.
C33_SearchReturnsMinTopK ==
  [][/\ chunks = << >> => queryEmbeds' = queryEmbeds
     /\ (results'.pc = "searched" /\ results'.stored > 0) =>
          LET hits == results'.hits
              n == Min(results'.top_k, results'.stored)
          IN /\ Len(hits) = n
             /\ \A i \in 1..Len(hits) :
                  hits[i].rank = i /\ hits[i].chunk \in 1..results'.stored
             /\ \A i, j \in 1..Len(hits) :
                  i # j => hits[i].chunk # hits[j].chunk]_vars

\* C34: when a non-cached add_documents has returned, the index file and
\* the chunk file both describe the document it loaded; and whenever both
\* files exist (what a restart would restore), they come from one and the
\* same document load.
C34_PersistedPairFromOneLoad ==
  /\ \A k \in Loads :
       (load[k].pc = "done" /\ load[k].how = "loaded") =>
         /\ index_file = File(Embeddings(load[k].arg))
         /\ chunks_file = File(load[k].arg)
  /\ (index_file.exists /\ chunks_file.exists) =>
       \E d \in Docs : /\ index_file.data = Embeddings(chunk_text(d))
                        /\ chunks_file.data = chunk_text(d)

\* C35: when the embedding call of add_documents fails, the call raises and
\* leaves the store empty (no chunks, no vectors) with the hash stored
\* before; and the next add_documents with chunks re-embeds, whatever its
\* hash, the hash of the document loaded before the failure included.
C35_FailedLoadLeavesEmptyStore ==
  \A k \in Loads :
    LET f == load[k] IN
    /\ (f.pc = "done" /\ f.how = "raised") =>
         /\ f.post.chunks = << >> /\ f.post.index = << >>
         /\ f.post.hash = f.pre.hash
    /\ (f.pc = "done" /\ f.prev.how = "raised" /\ f.arg # << >>) =>
         f.how # "hit"

\* C36: chunks restored from disk at startup are never a cache hit: the
\* first add_documents with chunks after startup embeds them, whatever hash
\* it is given, and when it returns the restored chunks and vectors have
\* been replaced by those of its document.
C36_RestoredNeverCacheHit ==
  \A k \in Loads :
    LET f == load[k] IN
    (loads = 1 /\ f.pc \in {"encode", "done"} /\ f.arg # << >>
       /\ f.pre.chunks # << >>) =>
      /\ f.pre.hash = NoHash
      /\ f.how # "hit" /\ f.encodes = 1
      /\ (f.pc = "done" /\ f.how = "loaded") =>
           chunks = f.arg /\ index = Embeddings(f.arg)
      /\ (f.pc = "encode" \/ f.how = "raised") =>
           chunks = << >> /\ index = << >>

\* C36 witness: document A was restored from disk, and the first call after
\* startup passed A again with its hash: it was embedded and loaded anew
C36_Witness ==
  \E k \in Loads :
    LET f == load[k] IN
    /\ loads = 1 /\ f.pc = "done" /\ f.how = "loaded"
    /\ f.doc = "A" /\ f.hash = DocHash["A"]
    /\ f.pre.chunks = chunk_text("A")
    /\ f.encodes = 1

\* C39: whenever the registry is non-empty the rotation cursor is a valid
\* 0-based index into it (0 <= cursor < N) in every reachable state, whatever
\* embed and generate dispatches ran or are suspended, so the provider that
\* get_current_provider_info and the dispatch loops read exists.
C39_CursorInRange ==
  NumProviders > 0 =>
    /\ current_provider_index >= 0
    /\ current_provider_index < NumProviders
    /\ current_provider_index + 1 \in DOMAIN api_providers

\* the cursor stood on the last provider and an except block wrapped it to 0,
\* while a dispatch of the other capability had advanced it before
C39_Witness ==
  /\ NumProviders >= 2
  /\ handled # NoError
  /\ handled.curBefore = NumProviders - 1
  /\ current_provider_index = 0
  /\ \E t, u \in 1..MaxDispatches :
       /\ t # u /\ frame[t].pc = "loop" /\ frame[u].pc = "call"
       /\ frame[t].cap # frame[u].cap

\* C38: the steps of a dispatch up to the return or the failure of its local
\* call leave the rotation cursor and the cooldown table as they are: a
\* dispatch the local provider serves returns the local result having called
\* no remote provider, and a local failure creates no cooldown entry and
\* leaves the local provider marked available, so every dispatch begun while
\* it is marked available, after a local failure too, awaits the local call
\* first.
C38_LocalLeavesRotationAlone ==
  [][ /\ \A t \in Frames :
           (frame[t].pc = "local" /\ frame'[t].pc # "local") =>
             /\ current_provider_index' = current_provider_index
             /\ rate_limit_cooldown' = rate_limit_cooldown
             /\ local_llm_available' = local_llm_available
             /\ frame'[t].pc \in {"done", "loop"}
             /\ frame'[t].pc = "done" =>
                  /\ frame'[t].result = "ok" /\ frame'[t].from = Local
                  /\ frame'[t].invoked = <<Local>>
             /\ frame'[t].pc = "loop" =>
                  /\ frame'[t].localOut = "raised" /\ frame'[t].attempt = 0
      /\ (local_llm_available /\ started > 0) => local_llm_available'
      /\ (local_llm_available /\ started' = started + 1) =>
           /\ current_provider_index' = current_provider_index
           /\ rate_limit_cooldown' = rate_limit_cooldown
           /\ \E t \in Frames :
                /\ frame[t].pc \notin {"local", "loop", "call"}
                /\ frame'[t].pc = "local" /\ frame'[t].invoked = <<Local>>
    ]_vars

\* an earlier dispatch saw its local call raise and put a remote provider in
\* cooldown; the dispatch after it was served by the local provider with the
\* cursor where it found it
C38_Witness ==
  /\ local_llm_available /\ started = 2
  /\ \E n \in Registered : raisedAt[n] >= 0 /\ rate_limit_cooldown[n] > clock
  /\ \E t \in Frames :
       /\ frame[t].pc = "done" /\ frame[t].localOut = "ok" /\ ~frame[t].overlap
       /\ frame[t].startCur > 0 /\ frame[t].endCur = frame[t].startCur
       /\ frame[t].startCooled # {}

\* number of calls of the local provider (local = TRUE) or of remote
\* providers (local = FALSE) in a call log
RECURSIVE CountCalls(_, _)
CountCalls(log, local) ==
  IF log = << >> THEN 0
  ELSE (IF (Head(log) = Local) = local THEN 1 ELSE 0) + CountCalls(Tail(log), local)

\* C37: provided every provider call comes back, every dispatch that has
\* begun eventually returns a result or raises the terminal error, whatever
\* other dispatches run in between and whatever is in cooldown; on the way it
\* awaits the local provider at most once and goes through at most N
\* iterations of the loop over the N registered providers, so it calls at
\* most N remote providers.
C37_DispatchTerminates ==
  /\ [](\A t \in Frames :
          LET f == frame[t] IN
          /\ f.attempt <= NumProviders
          /\ CountCalls(f.invoked, TRUE) <= 1
          /\ CountCalls(f.invoked, FALSE) <= NumProviders
          /\ f.pc = "done" => f.result \in {"ok", "terminal"})
  /\ \A t \in Frames :
       (frame[t].pc \in {"local", "loop", "call"}) ~> (frame[t].pc = "done")

\* a dispatch that began with a provider in cooldown and ran interleaved with
\* another one saw its local call raise, went through all N iterations and
\* raised the terminal error
C37_Witness ==
  \E t \in Frames :
    LET f == frame[t] IN
    /\ NumProviders = MaxLiveProviders
    /\ f.pc = "done" /\ f.result = "terminal" /\ f.localOut = "raised"
    /\ f.attempt = NumProviders /\ f.overlap /\ f.startCooled # {}

====
